---- MODULE Spec2Model ----
(***************************************************************************)
(* Event-driven cycle supervisor of clamban (server/team-manager, the      *)
(* variant with crash guard and turn budget), as a timed state machine.    *)
(*                                                                         *)
(* Time is counted in whole seconds.  A pending setTimeout is a record     *)
(* with the seconds left; Tick decrements every pending timer and is       *)
(* disabled while a timer is due, so a timer callback runs exactly when    *)
(* its delay has passed.  Date.now() - lastSpawnTime is kept as the        *)
(* saturating counter sinceSpawn (only "< 5000 ms" is ever asked of it).   *)
(* Child output is taken to be delivered before the child's exit event.    *)
(* A child that got SIGKILL exits, and its exit event is delivered, before *)
(* the next second has passed.                                             *)
(***************************************************************************)
EXTENDS Integers, Sequences, FiniteSets, TLC

\* ---------------------------------------------------------------- bounds
MaxProcs == 2      \* child processes that may be alive at the same time
MaxStray == 1      \* pending timers that no handle refers to
MaxUsed  == 3      \* cap on totalTurnsUsed (result events stop beyond it)
MaxReport == 2     \* largest num_turns of one result event

\* ------------------------------------------------------- program constants
IdleDebounceS   == 3      \* setTimeout(..., 3000) in notifyBoardChanged
RespawnDebounceS == 1     \* setTimeout(..., 1000) in the exit handler
CrashGuardS     == 5      \* elapsed < 5000
KillEscalationS == 5      \* setTimeout(..., 5000) in stopTeam
PerCycleCap     == 50     \* Math.min(50, remainingBudget)
DefaultMaxTurns == 1000   \* config.maxTurns || 1000

Pids == 1..MaxProcs
NoPid == 0
TeamName == "t1"
ConfigMaxTurns == {2}

Min(a, b) == IF a <= b THEN a ELSE b

NoConfig == [teamName |-> "", maxTurns |-> 0]
TeamConfig(m) == [teamName |-> TeamName, maxTurns |-> m]

NoTimer == [kind |-> "none", left |-> 0, pid |-> NoPid]
Timer(k, d, p) == [kind |-> k, left |-> d, pid |-> p]

\* the event loop keeps its pending timers in the order of their expiry
\* (timers of the same second: by kind and pid, so that one set of pending
\* timers is one list)
KindRank(k) == CASE k = "idle" -> 1 [] k = "respawn" -> 2 [] k = "kill" -> 3
                 [] k = "killpid" -> 4 [] OTHER -> 0
TimerKey(t) == t.left * 100 + KindRank(t.kind) * 10 + t.pid
AddTimer(seq, t) ==
  LET k == Cardinality({i \in 1..Len(seq) : TimerKey(seq[i]) <= TimerKey(t)})
  IN SubSeq(seq, 1, k) \o <<t>> \o SubSeq(seq, k + 1, Len(seq))
RECURSIVE SortTimers(_)
SortTimers(seq) ==
  IF seq = <<>> THEN <<>> ELSE AddTimer(SortTimers(Tail(seq)), Head(seq))

VARIABLES
  leadProcess,         \* pid of the in-memory ChildProcess handle, NoPid = null
  debounceTimer,       \* the timer the debounceTimer handle refers to, or NoTimer
  strayTimers,         \* pending timers without a handle (kill escalation, overwritten handles)
  teamActive,
  pendingBoardChange,
  sinceSpawn,          \* min(CrashGuardS, seconds since lastSpawnTime), kept while an
                       \* exit handler can read it before the next spawn sets it (the
                       \* team active, a listened-to child alive), CrashGuardS otherwise
  totalTurnsUsed,
  currentConfig,
  procs,               \* the child processes that have not exited yet and that
                       \* the supervisor can still reach
  persistedPid,        \* leadPid of state/<team>.json, NoPid = absent
  logEmpty,            \* logs/<team>.log is missing or has length 0
  last                 \* what the latest step did (observation only)

vars == <<leadProcess, debounceTimer, strayTimers, teamActive, pendingBoardChange,
          sinceSpawn, totalTurnsUsed, currentConfig, procs, persistedPid, logEmpty, last>>

\* -------------------------------------------- the board file and its API
MaxTasks == 2      \* tasks ever created (ids are never reused)
MaxRefs  == 2      \* refs on one task
MaxCtx   == 1      \* file-context entries on one task

VARIABLES
  tasks,               \* board.tasks of the board file: a set of task records
  nextId,              \* the ids generateId() has handed out so far, plus 1
  team,                \* board.meta.team: its projectDir, or NoTeam
  boardOnDisk,         \* the board file exists; readBoard() makes a missing one
  resp                 \* the latest API request and its response (observation only)

boardVars == <<tasks, nextId, team, boardOnDisk, resp>>

NoTeam == [abs |-> FALSE, segs |-> <<>>]
NoResp == [op |-> "init", id |-> 0, status |-> 0, wrote |-> FALSE]

\* ------------------------------------------- the board file on the disk
MaxWrites == 3     \* calls of writeBoardSync
MaxInodes == MaxWrites + 1     \* files ever created: the board and one temp file per write

VARIABLES
  files,                 \* the directory: path |-> inode, 0 = no such file
  inodes,              \* the inodes made so far: inode |-> content, a list of chunks
  nextInode,
  wpc,                 \* where the server is in writeBoardSync
  wfd,                 \* the inode its open file descriptor refers to
  nWrites,             \* calls of writeBoardSync so far; the n-th is passed document n
  rfd,                 \* the inode a reader (another process) has open, 0 = none
  got                  \* what the latest read returned

storeVars == <<files, inodes, nextInode, wpc, wfd, nWrites, rfd, got>>

boardPath == "board.json"
\* a document is written in two chunks; Doc(0) is the board before any write
Doc(d) == <<d, d>>
NoRead == <<"-">>

\* ------------------------------------------------ the active-team marker
VARIABLES
  markerFile,          \* content of active-team.json, a list of chunks, or Missing
  activeTeamName,
  spc,                 \* where the server is in setActiveTeam
  sname,               \* the argument of the setActiveTeam in progress
  sprev,               \* activeTeamName when that call began
  sdone                \* the argument of the latest completed setActiveTeam

markerVars == <<markerFile, activeTeamName, spc, sname, sprev, sdone>>

Null == "null"
TeamNames == {"a", "b"}
Missing == <<"missing">>
NoneYet == "none"
\* JSON.stringify({ teamName: name }), written in two chunks
Marker(name) == <<name, name>>

\* ---------------------------------------------------- the turn governor
MaxBudgetUsed == 75    \* the supervisor's result events are not modelled beyond this many turns
MaxTurnsUsed == 11     \* recordTurns is not called beyond this many turns
MaxFired == 2          \* callbacks counted per epoch

VARIABLES
  govMaxTurns,         \* options.maxTurns
  turnsUsed,
  exhausted,
  warningFired,
  exhaustedCalls,      \* calls of onBudgetExhausted since the latest reset()
  warningCalls,        \* calls of onBudgetWarning since the latest reset()
  resetCalls,          \* calls of reset() on this governor
  glast                \* the latest call of the governor and what it returned

govVars == <<govMaxTurns, turnsUsed, exhausted, warningFired, exhaustedCalls, warningCalls, resetCalls, glast>>

MaxTurnsOptions == {1, 3, 10}
TurnCounts == 0..2
PerCycleCaps == -1..4
NoCall == [op |-> "init", arg |-> 0, ret |-> 0]
Call(op, arg, ret) == [op |-> op, arg |-> arg, ret |-> ret]

\* ------------------------------------------------------ event delivery
MaxDeliveries == 2     \* deliver() calls counted per delivery object
MaxLate == 1           \* how late, in time units, a timer callback may run

VARIABLES
  dMaxRetries,         \* options.maxRetries
  dBaseDelay,          \* options.baseDelayMs, in time units
  dConfirm,            \* whether options.confirm is given
  deliveredCount,
  failedCount,
  dpc,                 \* where the one deliver() call in progress is
  attempt,
  dtimer,              \* what is left of the setTimeout of the backoff
  elapsed,             \* time since that setTimeout
  outcomes,            \* how each attempt of the current or latest call ended
  waits,               \* how long that call waited after each attempt
  dret,                \* what the latest call resolved to
  onExhaustedArgs,     \* the attempts argument of each onExhausted call of that call
  onDeliveredCalls     \* onDelivered calls of that call

deliveryVars == <<dMaxRetries, dBaseDelay, dConfirm, deliveredCount, failedCount, dpc,
                  attempt, dtimer, elapsed, outcomes, waits, dret, onExhaustedArgs,
                  onDeliveredCalls>>

MaxRetriesOptions == 0..2
BaseDelayOptions == {1, 2}

\* -------------------------------------------------- the resilient watcher
MaxReinit == 2         \* reinitCount is counted up to this
MaxDeletes == 2        \* external deletions of the watched directory, in all
MaxBeats == 2          \* watch events and heartbeat() calls per watcher

VARIABLES
  hbTimeout,           \* options.heartbeatTimeoutMs, in time units, 0 = disabled
  isActive,
  reinitCount,
  heartbeatTimer,      \* what is left of the heartbeat timer, NoHb = none pending
  watchers,            \* the open subscriptions, each by the directory it was opened on
  dirExists,           \* the watched directory is on the disk
  dirGen,              \* which directory: a re-created one is a new one
  sinceBeat,           \* time since the heartbeat timer was last armed
  deletes,
  beats,
  wlast                \* the latest call or callback of the watcher

watcherVars == <<hbTimeout, isActive, reinitCount, heartbeatTimer, watchers, dirExists,
                 dirGen, sinceBeat, deletes, beats, wlast>>

HeartbeatOptions == {0, 2}
NoHb == -1

\* ------------------------------------------------------- the team log
MaxLogOver == 3    \* lines the log may hold beyond the cap of the route
LogTailCap == 2000

VARIABLES
  logExists,           \* the log file of the active team is on the disk
  logLines,            \* the lines in it, each written with its "\n"
  lresp                \* the latest answer of GET /api/team/logs

logVars == <<logExists, logLines, lresp>>

\* a JavaScript number: an integer or NaN
Num(n) == [nan |-> FALSE, n |-> n]
NaN == [nan |-> TRUE, n |-> 0]
\* lines: what Math.min handed to readLogTail; returned: the elements of the
\* slice; text: the lines of text among them
NoLogs == [query |-> "init", lines |-> NaN, returned |-> 0, text |-> 0]

\* ------------------------------------- deliver() calls that overlap
MaxCalls == 2      \* deliver() calls of one EventDelivery

VARIABLES
  cMaxRetries,         \* options.maxRetries
  cThrows,             \* the callbacks of the options that throw when called
  cDeliveredCount,
  cFailedCount,
  calls                \* the deliver() calls made so far: where each is and what
                       \* it did

callVars == <<cMaxRetries, cThrows, cDeliveredCount, cFailedCount, calls>>

\* pc: "none" not called, "attempt" at await action(), "waiting" at the
\* await of the backoff, "done" settled; ret: what the promise settled to
NoDeliverCall == [pc |-> "none", attempt |-> 0, delivered |-> 0, failed |-> 0,
                  onDelivered |-> 0, onExhausted |-> 0, ret |-> "pending"]

\* ------------------------------------ the cycles of the supervisor's epoch
MaxCycles == 4     \* cycles counted per start() epoch

VARIABLES
  cycles,              \* per pid that ran a cycle: the --max-turns the latest
                       \* one got and the turns it reported
  cyclesSpawned        \* cycles spawned since the latest accepted start()

epochVars == <<cycles, cyclesSpawned>>

\* ------------------------------------------- HTTP requests in flight
MaxRequests == 3   \* requests the server receives

VARIABLES
  requests,            \* the requests received so far, in the order of their
                       \* arrival: where the handler is, what it asks, its answer
  answered             \* the requests answered with success, in the order of the answers

flightVars == <<requests, answered>>

NoRequest == [pc |-> "none", kind |-> "none", id |-> 0, col |-> "none",
              status |-> 0, seen |-> {}]

\* ------------------------------------------- the boards of the teams
VARIABLES
  metaTeam             \* per board file written by a team route (by the team
                       \* name in its path, Null for board.json):
                       \* meta.team.teamName, or Null

teamVars == <<metaTeam>>

otherVars == <<boardVars, storeVars, markerVars, govVars, deliveryVars, watcherVars, logVars, callVars, epochVars, flightVars, teamVars>>
\* everything but the board and the marker of the active team
RestInit ==
  /\ files = [p \in {boardPath, "board.json.tmp"} |-> IF p = boardPath THEN 1 ELSE 0]
  /\ inodes = <<Doc(0)>>
  /\ nextInode = 2
  /\ wpc = "idle"
  /\ wfd = 0
  /\ nWrites = 0
  /\ rfd = 0
  /\ got = NoRead
  /\ spc = "idle"
  /\ sname = Null
  /\ sprev = Null
  /\ sdone = NoneYet
  /\ govMaxTurns = 3
  /\ turnsUsed = 0
  /\ exhausted = FALSE
  /\ warningFired = FALSE
  /\ exhaustedCalls = 0
  /\ warningCalls = 0
  /\ resetCalls = 0
  /\ dMaxRetries = 1
  /\ dBaseDelay = 1
  /\ dConfirm = FALSE
  /\ deliveredCount = 0
  /\ failedCount = 0
  /\ dpc = "idle"
  /\ attempt = 0
  /\ dtimer = 0
  /\ elapsed = 0
  /\ outcomes = <<>>
  /\ waits = <<>>
  /\ dret = "none"
  /\ onExhaustedArgs = <<>>
  /\ onDeliveredCalls = 0
  /\ hbTimeout = 0
  /\ isActive = FALSE
  /\ reinitCount = 0
  /\ heartbeatTimer = NoHb
  /\ watchers = {}
  /\ dirExists = FALSE
  /\ dirGen = 0
  /\ sinceBeat = 0
  /\ deletes = 0
  /\ beats = 0
  /\ wlast = "init"
  /\ glast = NoCall
  /\ logExists = FALSE
  /\ logLines = 0
  /\ lresp = NoLogs
  /\ cycles = <<>>
  /\ cyclesSpawned = 0
  /\ metaTeam = <<>>
  /\ requests = <<>>
  /\ answered = <<>>
  /\ cMaxRetries = 1
  /\ cThrows = {}
  /\ cDeliveredCount = 0
  /\ cFailedCount = 0
  /\ calls = <<>>

\* a fresh install: no board file, no marker, no team connected
OtherInit ==
  /\ tasks = {}
  /\ boardOnDisk = FALSE
  /\ nextId = 1
  /\ team = NoTeam
  /\ resp = NoResp
  /\ markerFile = Missing
  /\ activeTeamName = Null
  /\ RestInit

\* ------------------------------------------------------ observation record
\* op: the operation; status: HTTP status of a start request; spawnCall:
\* spawnCycle got past its config check; spawned: processes launched;
\* cycleTurns: the --max-turns given; onExit: calls of currentOnExit;
\* pidAtOnExit: the persisted leadPid when it was called; sigs: signals sent;
\* fired: the timer whose callback ran
NoFx == [op |-> "init", status |-> 0, spawnCall |-> FALSE, spawned |-> 0,
         cycleTurns |-> 0, onExit |-> 0, pidAtOnExit |-> NoPid, sigs |-> {},
         fired |-> NoTimer]
Fx(op) == [NoFx EXCEPT !.op = op]

\* The supervisor's state as one record, so that a handler is a function.
Cur(op) ==
  [leadProcess |-> leadProcess, debounceTimer |-> debounceTimer,
   strayTimers |-> strayTimers, teamActive |-> teamActive,
   pendingBoardChange |-> pendingBoardChange, sinceSpawn |-> sinceSpawn,
   totalTurnsUsed |-> totalTurnsUsed, currentConfig |-> currentConfig,
   procs |-> procs, persistedPid |-> persistedPid, logEmpty |-> logEmpty,
   fx |-> Fx(op)]

\* a process that no exit listener, no state file and no pending timer
\* refers to is out of the supervisor's reach for good: it is left out
Reachable(s, c) ==
  \/ c.handler
  \/ c.pid = s.persistedPid
  \/ \E i \in 1..Len(s.strayTimers) : s.strayTimers[i].pid = c.pid

\* the pid a timer was armed for names a process only while that process
\* lives
Forget(s, t) ==
  IF t.pid # NoPid /\ ~(\E c \in s.procs : c.pid = t.pid)
    THEN [t EXCEPT !.pid = NoPid] ELSE t

BecomesSupervisor(s) ==
  /\ leadProcess' = s.leadProcess
  /\ debounceTimer' = s.debounceTimer
  /\ strayTimers' = IF \A i \in 1..Len(s.strayTimers) : Forget(s, s.strayTimers[i]) = s.strayTimers[i]
                      THEN s.strayTimers
                      ELSE SortTimers([i \in 1..Len(s.strayTimers) |-> Forget(s, s.strayTimers[i])])
  /\ teamActive' = s.teamActive
  /\ pendingBoardChange' = s.pendingBoardChange
  /\ sinceSpawn' = IF s.teamActive /\ \E c \in s.procs : c.handler
                     THEN s.sinceSpawn ELSE CrashGuardS
  /\ totalTurnsUsed' = s.totalTurnsUsed
  /\ currentConfig' = s.currentConfig
  /\ procs' = {c \in s.procs : Reachable(s, c)}
  /\ persistedPid' = s.persistedPid
  /\ logEmpty' = s.logEmpty
  /\ last' = s.fx

Becomes(s) == BecomesSupervisor(s) /\ UNCHANGED otherVars

\* ------------------------------------------------------------- processes
ProcOf(ps, p) == CHOOSE c \in ps : c.pid = p
isPidAlive(ps, p) == \E c \in ps : c.pid = p
\* ChildProcess.killed, as far as it is ever read: it is read of leadProcess
\* only, and the one place that sends SIGTERM (stopTeam) sets leadProcess to
\* null in the same call, so only a SIGKILL is ever seen on a held handle
Killed(ps, p) == ProcOf(ps, p).kill
\* a signal is remembered on the child only where it can make a difference
\* later: SIGKILL to a child the supervisor still listens to (the signals
\* sent are all recorded in last.sigs)
Signal(ps, p, sig) ==
  {IF c.pid = p /\ c.handler /\ sig = "SIGKILL" THEN [c EXCEPT !.kill = TRUE] ELSE c
     : c \in ps}

\* pids the operating system can hand out: not running, not remembered anywhere
FreePids(s) ==
  {p \in Pids : /\ ~isPidAlive(s.procs, p)
                /\ p # s.persistedPid
                /\ \A i \in 1..Len(s.strayTimers) : s.strayTimers[i].pid # p}
LowestFree(s) == CHOOSE p \in FreePids(s) : \A q \in FreePids(s) : p <= q

\* config.maxTurns || 1000
EffMaxTurns(cfg) == IF cfg.maxTurns = 0 THEN DefaultMaxTurns ELSE cfg.maxTurns

OnExit(s) == [s EXCEPT !.fx.onExit = @ + 1, !.fx.pidAtOnExit = s.persistedPid]

\* ------------------------------------------------------------- spawnCycle
WouldSpawn(s) ==
  /\ s.currentConfig # NoConfig
  /\ EffMaxTurns(s.currentConfig) - s.totalTurnsUsed > 0

\* variant: the budget test is "< 0", a cycle is launched with 0 turns left
spawnCycleOffByOne(s) ==
  IF s.currentConfig = NoConfig THEN s
  ELSE
    LET maxTurns == EffMaxTurns(s.currentConfig)
        remainingBudget == maxTurns - s.totalTurnsUsed
    IN IF remainingBudget < 0
         THEN OnExit([s EXCEPT !.teamActive = FALSE, !.persistedPid = NoPid,
                               !.fx.spawnCall = TRUE])
         ELSE
           LET pid == CHOOSE p \in Pids \cup {NoPid} :
                         IF FreePids(s) = {} THEN p = NoPid ELSE p = LowestFree(s)
               child == [pid |-> pid, maxTurns |-> s.currentConfig.maxTurns,
                         handler |-> TRUE, kill |-> FALSE]
           IN IF pid = NoPid THEN s
              ELSE [s EXCEPT !.logEmpty = FALSE,
                        !.sinceSpawn = 0,
                        !.pendingBoardChange = FALSE,
                        !.leadProcess = pid,
                        !.procs = @ \cup {child},
                        !.persistedPid = pid,
                        !.fx.spawnCall = TRUE,
                        !.fx.spawned = @ + 1,
                        !.fx.cycleTurns = Min(PerCycleCap, remainingBudget)]

spawnCycle(s) ==
  IF s.currentConfig = NoConfig THEN s
  ELSE
    LET maxTurns == EffMaxTurns(s.currentConfig)
        remainingBudget == maxTurns - s.totalTurnsUsed
    IN IF remainingBudget <= 0
         THEN OnExit([s EXCEPT !.teamActive = FALSE, !.persistedPid = NoPid,
                               !.fx.spawnCall = TRUE])
         ELSE
           LET pid == LowestFree(s)
               cycleTurns == Min(PerCycleCap, remainingBudget)
               child == [pid |-> pid, maxTurns |-> s.currentConfig.maxTurns,
                         handler |-> TRUE, kill |-> FALSE]
           IN [s EXCEPT !.logEmpty = FALSE,
                        !.sinceSpawn = 0,
                        !.pendingBoardChange = FALSE,
                        !.leadProcess = pid,
                        !.procs = @ \cup {child},
                        !.persistedPid = pid,
                        !.fx.spawnCall = TRUE,
                        !.fx.spawned = @ + 1,
                        !.fx.cycleTurns = cycleTurns]

\* a step that would launch a process needs a pid to give it
PidAvailable(s) == WouldSpawn(s) => FreePids(s) # {}

\* ----------------------------------------------------------- checkRunning
\* variant: the check of the polling supervisor (in-memory handle instead
\* of the teamActive flag)
checkRunningByHandle(s) ==
  \/ (s.leadProcess # NoPid /\ ~Killed(s.procs, s.leadProcess))
  \/ (s.persistedPid # NoPid /\ isPidAlive(s.procs, s.persistedPid))

checkRunning(s) ==
  \/ s.teamActive
  \/ (s.persistedPid # NoPid /\ isPidAlive(s.procs, s.persistedPid))

isTeamRunning == checkRunning(Cur("get"))

\* --------------------------------------------------------------- startTeam
\* variant: the state is reset before the running check
startTeamResetFirst(s, cfg) ==
  IF checkRunning(s)
    THEN [s EXCEPT !.totalTurnsUsed = 0, !.pendingBoardChange = FALSE,
                   !.currentConfig = cfg, !.fx.status = 409]
    ELSE spawnCycle([s EXCEPT !.teamActive = TRUE,
                              !.totalTurnsUsed = 0,
                              !.pendingBoardChange = FALSE,
                              !.currentConfig = cfg,
                              !.logEmpty = TRUE,
                              !.fx.status = 200])

startTeam(s, cfg) ==
  IF checkRunning(s)
    THEN [s EXCEPT !.fx.status = 409]
    ELSE spawnCycle([s EXCEPT !.teamActive = TRUE,
                              !.totalTurnsUsed = 0,
                              !.pendingBoardChange = FALSE,
                              !.currentConfig = cfg,
                              !.logEmpty = TRUE,
                              !.fx.status = 200])

StartTeamStep ==
  \E m \in ConfigMaxTurns :
    LET s0 == Cur("start")
        pre == [s0 EXCEPT !.currentConfig = TeamConfig(m), !.totalTurnsUsed = 0]
    IN /\ ~checkRunning(s0) => PidAvailable(pre)
       /\ BecomesSupervisor(startTeam(s0, TeamConfig(m)))

StartTeam == StartTeamStep /\ UNCHANGED otherVars

\* ------------------------------------------- child stdout: a result event
\* totalTurnsUsed += event.num_turns
\* variant: every result event counts as one turn
onResultCountsEvents(s, n) == [s EXCEPT !.totalTurnsUsed = @ + 1]
onResult(s, n) == [s EXCEPT !.totalTurnsUsed = @ + n]

\* the stdout handler does not tell the children apart
ChildResult ==
  /\ \E c \in procs : c.handler /\ ~c.kill
  /\ \E n \in 1..MaxReport :
       /\ totalTurnsUsed + n <= MaxUsed
       /\ Becomes(onResult(Cur("result"), n))

\* ------------------------------------------------- leadProcess.on("exit")
\* setTimeout assigned to debounceTimer: a timer the handle still refers to
\* is not cleared, it goes on running without a handle
Overwrite(s, t) ==
  [s EXCEPT !.debounceTimer = t,
            !.strayTimers = IF s.debounceTimer = NoTimer THEN @
                            ELSE AddTimer(@, s.debounceTimer)]

\* variant: the pending-change branch is missing, the supervisor goes idle
onChildExitNoRespawn(s, c) ==
  LET s1 == [s EXCEPT !.procs = @ \ {c},
                      !.leadProcess = NoPid,
                      !.persistedPid = NoPid]
  IN IF ~s1.teamActive THEN OnExit(s1)
     ELSE IF s1.sinceSpawn < CrashGuardS THEN OnExit(s1)
     ELSE IF s1.totalTurnsUsed >= EffMaxTurns(c) THEN OnExit([s1 EXCEPT !.teamActive = FALSE])
     ELSE OnExit(s1)

\* variant: the crash guard returns without calling onExit
onChildExitSilentCrash(s, c) ==
  LET s1 == [s EXCEPT !.procs = @ \ {c},
                      !.leadProcess = NoPid,
                      !.persistedPid = NoPid]
  IN IF ~s1.teamActive THEN OnExit(s1)
     ELSE IF s1.sinceSpawn < CrashGuardS THEN s1
     ELSE IF s1.totalTurnsUsed >= EffMaxTurns(c) THEN OnExit([s1 EXCEPT !.teamActive = FALSE])
     ELSE IF s1.pendingBoardChange
       THEN OnExit(Overwrite(s1, Timer("respawn", RespawnDebounceS, NoPid)))
     ELSE OnExit(s1)

onChildExit(s, c) ==
  LET s1 == [s EXCEPT !.procs = @ \ {c},
                      !.leadProcess = NoPid,
                      !.persistedPid = NoPid]
  IN IF ~s1.teamActive THEN OnExit(s1)
     ELSE IF s1.sinceSpawn < CrashGuardS THEN OnExit(s1)
     ELSE IF s1.totalTurnsUsed >= EffMaxTurns(c) THEN OnExit([s1 EXCEPT !.teamActive = FALSE])
     ELSE IF s1.pendingBoardChange
       THEN OnExit(Overwrite(s1, Timer("respawn", RespawnDebounceS, NoPid)))
     ELSE OnExit(s1)

StrayRoom(s) == Len(s.strayTimers) < MaxStray

ChildExitOf(c) ==
  LET s0 == Cur("exit")
  IN /\ c.handler
     /\ (debounceTimer # NoTimer) => StrayRoom(s0)
     /\ BecomesSupervisor(onChildExit(s0, c))

ChildExit == \E c \in procs : ChildExitOf(c) /\ UNCHANGED otherVars

\* a child whose exit nobody listens to any more (the server was restarted)
OrphanExit ==
  \E c \in procs :
    LET s0 == Cur("orphanexit")
    IN /\ ~c.handler
       /\ Becomes([s0 EXCEPT !.procs = @ \ {c}])

\* ---------------------------------------------------------------- stopTeam
stopTeam(s) ==
  LET s1 == [s EXCEPT !.teamActive = FALSE,
                      !.pendingBoardChange = FALSE,
                      !.debounceTimer = NoTimer]
      s2 == IF s1.leadProcess # NoPid /\ ~Killed(s1.procs, s1.leadProcess)
              THEN [s1 EXCEPT !.procs = Signal(@, s1.leadProcess, "SIGTERM"),
                              !.fx.sigs = @ \cup {<<"SIGTERM", s1.leadProcess>>},
                              !.strayTimers = AddTimer(@, Timer("kill", KillEscalationS, s1.leadProcess))]
              ELSE LET pid == s1.persistedPid
                   IN IF pid # NoPid /\ isPidAlive(s1.procs, pid)
                        THEN [s1 EXCEPT !.procs = Signal(@, pid, "SIGTERM"),
                                        !.fx.sigs = @ \cup {<<"SIGTERM", pid>>},
                                        !.strayTimers = AddTimer(@, Timer("killpid", KillEscalationS, pid))]
                        ELSE s1
  IN [s2 EXCEPT !.leadProcess = NoPid,
                !.currentConfig = NoConfig,
                !.persistedPid = NoPid]

StopTeamStep ==
  LET s0 == Cur("stop")
  IN /\ Len(stopTeam(s0).strayTimers) <= MaxStray
     /\ BecomesSupervisor(stopTeam(s0))

StopTeam == StopTeamStep /\ UNCHANGED otherVars

\* ------------------------------------------------------ notifyBoardChanged
notifyBoardChanged(s) ==
  IF ~s.teamActive THEN s
  ELSE IF s.leadProcess # NoPid /\ ~Killed(s.procs, s.leadProcess)
    THEN [s EXCEPT !.pendingBoardChange = TRUE]
  ELSE [s EXCEPT !.debounceTimer = Timer("idle", IdleDebounceS, NoPid)]

NotifyBoardChangedStep ==
  LET s0 == Cur("notify")
  IN /\ s0.fx.op = "notify"
     /\ BecomesSupervisor(notifyBoardChanged(s0))

NotifyBoardChanged == NotifyBoardChangedStep /\ UNCHANGED otherVars

\* ------------------------------------------------------- timer callbacks
\* the pid of a "kill" timer is the child stopTeam signalled; the callback
\* does not have it, it reads leadProcess
onTimer(s, t) ==
  CASE t.kind = "idle" ->
         LET s1 == [s EXCEPT !.debounceTimer = NoTimer]
         IN IF s1.teamActive /\ s1.leadProcess = NoPid THEN spawnCycle(s1) ELSE s1
    [] t.kind = "respawn" ->
         spawnCycle([s EXCEPT !.debounceTimer = NoTimer])
    [] t.kind = "kill" ->
         IF s.leadProcess # NoPid /\ ~Killed(s.procs, s.leadProcess)
           THEN [s EXCEPT !.procs = Signal(@, s.leadProcess, "SIGKILL"),
                          !.fx.sigs = @ \cup {<<"SIGKILL", s.leadProcess>>}]
           ELSE s
    [] t.kind = "killpid" ->
         IF isPidAlive(s.procs, t.pid)
           THEN [s EXCEPT !.procs = Signal(@, t.pid, "SIGKILL"),
                          !.fx.sigs = @ \cup {<<"SIGKILL", t.pid>>}]
           ELSE s

RemoveAt(seq, i) == SubSeq(seq, 1, i - 1) \o SubSeq(seq, i + 1, Len(seq))

\* the timer the handle refers to fires
DebounceFiresStep ==
  /\ debounceTimer # NoTimer /\ debounceTimer.left = 0
  /\ LET s0 == [Cur("timer") EXCEPT !.debounceTimer = NoTimer, !.fx.fired = debounceTimer]
         willSpawn == (debounceTimer.kind = "respawn" \/ (teamActive /\ leadProcess = NoPid))
     IN /\ willSpawn => PidAvailable(s0)
        /\ BecomesSupervisor(onTimer(s0, debounceTimer))

DebounceFires == DebounceFiresStep /\ UNCHANGED otherVars

\* a timer without a handle fires; a callback that sets debounceTimer = null
\* leaves the timer the handle referred to running without a handle
StrayFiresStep ==
  \E i \in 1..Len(strayTimers) :
    LET t == strayTimers[i]
        rest == RemoveAt(strayTimers, i)
        nulls == t.kind \in {"idle", "respawn"}
        s0 == [Cur("timer") EXCEPT
                 !.strayTimers = IF nulls /\ debounceTimer # NoTimer
                                   THEN AddTimer(rest, debounceTimer) ELSE rest,
                 !.debounceTimer = IF nulls THEN NoTimer ELSE @,
                 !.fx.fired = t]
        willSpawn == (t.kind = "respawn" \/ (t.kind = "idle" /\ teamActive /\ leadProcess = NoPid))
    IN /\ t.left = 0
       /\ willSpawn => PidAvailable(s0)
       /\ BecomesSupervisor(onTimer(s0, t))

StrayFires == StrayFiresStep /\ UNCHANGED otherVars

\* ------------------------------------------------------------------- time
TimerDue ==
  \/ (debounceTimer # NoTimer /\ debounceTimer.left = 0)
  \/ \E i \in 1..Len(strayTimers) : strayTimers[i].left = 0

Dec(t) == IF t = NoTimer THEN t ELSE [t EXCEPT !.left = @ - 1]

\* a second passes; modelled while something measures time
Clocked ==
  \/ debounceTimer # NoTimer
  \/ strayTimers # <<>>
  \/ sinceSpawn < CrashGuardS

\* SIGKILL cannot be caught: the process is gone, and its exit event
\* delivered, within the second
KilledPending == \E c \in procs : c.kill

TickStep ==
  /\ ~TimerDue
  /\ ~KilledPending
  /\ Clocked
  /\ BecomesSupervisor([Cur("tick") EXCEPT
       !.debounceTimer = Dec(@),
       !.strayTimers = [i \in 1..Len(@) |-> Dec(@[i])],
       !.sinceSpawn = Min(CrashGuardS, @ + 1)])

Tick == TickStep /\ UNCHANGED otherVars

\* ---------------------------------------- server process restart / reload
\* module state is initialised afresh (lines 26-34); timers and exit
\* listeners are gone, the children and the files stay
Restart ==
  /\ TRUE
  /\ Becomes([Cur("restart") EXCEPT
     !.leadProcess = NoPid, !.debounceTimer = NoTimer, !.strayTimers = <<>>,
     !.teamActive = FALSE, !.pendingBoardChange = FALSE,
     !.sinceSpawn = CrashGuardS, !.totalTurnsUsed = 0,
     !.currentConfig = NoConfig,
     !.procs = {[c EXCEPT !.handler = FALSE, !.kill = FALSE] : c \in @}])

SupervisorInit ==
  /\ leadProcess = NoPid
  /\ debounceTimer = NoTimer
  /\ strayTimers = <<>>
  /\ teamActive = FALSE
  /\ pendingBoardChange = FALSE
  /\ sinceSpawn = CrashGuardS
  /\ totalTurnsUsed = 0
  /\ currentConfig = NoConfig
  /\ procs = {}
  /\ persistedPid = NoPid
  /\ logEmpty = TRUE
  /\ last = NoFx

Init == SupervisorInit /\ OtherInit

Next ==
  \/ StartTeam
  \/ StopTeam
  \/ NotifyBoardChanged
  \/ ChildResult
  \/ ChildExit
  \/ OrphanExit
  \/ DebounceFires
  \/ StrayFires
  \/ Tick
  \/ Restart

Spec == Init /\ [][Next]_vars

\* ============================================================ the board API
\* The request handlers of routes.ts on the board file of one team.  A
\* handler runs from readBoard() to writeBoardSync() without yielding, so
\* every state is a board as it is on disk, a missing file standing for
\* the default board.  Of a task the fields the handlers decide on are
\* kept: id, column, refs, context.
Columns == {"backlog", "ready", "in-progress", "review", "done"}
RefTypes == {"related", "blocks", "blocked-by", "parent", "child"}
Absent == "(absent)"          \* a key the request body does not have
TaskIds == 1..MaxTasks

\* a path is a list of segments, absolute or relative; "" is Rel(<<>>)
Rel(segs) == [abs |-> FALSE, segs |-> segs]
Abs(segs) == [abs |-> TRUE, segs |-> segs]
EmptyPath == Rel(<<>>)

\* request inputs that are tried
ColumnInputs == {"done", "archive"}
RefTypeInputs == {"related", "blocks"}
ProjectDirs == {Abs(<<"p">>)}
RawPaths == {Rel(<<"a">>), Rel(<<"..", "q", "a">>), Abs(<<"p", "a">>), EmptyPath}
ContextInputs == {<<Abs(<<"etc">>)>>}

inverseType(t) ==
  CASE t = "related" -> "related"
    [] t = "blocks" -> "blocked-by"
    [] t = "blocked-by" -> "blocks"
    [] t = "parent" -> "child"
    [] t = "child" -> "parent"

TaskRef(id, t) == [taskId |-> id, type |-> t]
Task(id, col) == [id |-> id, column |-> col, refs |-> <<>>, context |-> <<>>]

\* board.tasks.find((t) => t.id === id)
HasTask(ts, id) == \E t \in ts : t.id = id
TaskOf(ts, id) == CHOOSE t \in ts : t.id = id
Replace(ts, t) == {u \in ts : u.id # t.id} \cup {t}

\* refs.some(...), refs.findIndex(...), refs.splice(i, 1)
SomeRef(refs, r) == \E i \in 1..Len(refs) : refs[i] = r
\* hits: the refs the callback of findIndex accepts; 0 stands for -1
FirstIndex(refs, hits) ==
  IF \E i \in 1..Len(refs) : refs[i] \in hits
    THEN CHOOSE i \in 1..Len(refs) : refs[i] \in hits /\ \A j \in 1..(i - 1) : refs[j] \notin hits
    ELSE 0
Splice(seq, i) == SubSeq(seq, 1, i - 1) \o SubSeq(seq, i + 1, Len(seq))

\* path.isAbsolute, path.resolve
isAbsolute(p) == p.abs
RECURSIVE normalize(_, _)
normalize(acc, segs) ==
  IF segs = <<>> THEN acc
  ELSE LET h == Head(segs)
       IN normalize(IF h = ".." THEN (IF acc = <<>> THEN acc ELSE SubSeq(acc, 1, Len(acc) - 1))
                    ELSE IF h = "." THEN acc
                    ELSE Append(acc, h),
                    Tail(segs))
resolve(dir, p) ==
  IF p.abs THEN Abs(normalize(<<>>, p.segs))
  ELSE Abs(normalize(normalize(<<>>, dir.segs), p.segs))
\* filePath.startsWith(resolve(projectDir) + sep) || filePath === resolve(projectDir)
Within(dir, f) ==
  LET d == resolve(dir, EmptyPath).segs
  IN Len(d) <= Len(f.segs) /\ SubSeq(f.segs, 1, Len(d)) = d

Resp(op, id, status, wrote) == [op |-> op, id |-> id, status |-> status, wrote |-> wrote]
\* a request that ends without writeBoardSync
Reply(op, id, status) ==
  /\ resp' = Resp(op, id, status, FALSE)
  /\ UNCHANGED <<tasks, nextId, team>>

\* readBoard(): a missing board file is written first, with defaultBoard()
readBoard == boardOnDisk' = TRUE

besidesBoard == <<vars, storeVars, markerVars, govVars, deliveryVars, watcherVars, logVars, callVars, epochVars, flightVars, teamVars>>

\* POST /api/tasks
PostTask ==
  \E col \in ColumnInputs \cup {Absent} :
    LET task == Task(nextId, IF col = Absent THEN "backlog" ELSE col)
    IN /\ nextId <= MaxTasks
       /\ tasks' = tasks \cup {task}
       /\ nextId' = nextId + 1
       /\ resp' = Resp("POST task", task.id, 201, TRUE)
       /\ readBoard
       /\ UNCHANGED <<team, besidesBoard>>

\* PATCH /api/tasks/:id, with the keys of the body that are copied
PatchTask ==
  \E id \in TaskIds, keys \in SUBSET {"column", "context"},
     col \in ColumnInputs, ctx \in ContextInputs :
    /\ IF ~HasTask(tasks, id) THEN Reply("PATCH task", id, 404)
       ELSE LET task == TaskOf(tasks, id)
                t1 == IF "column" \in keys THEN [task EXCEPT !.column = col] ELSE task
                t2 == IF "context" \in keys THEN [t1 EXCEPT !.context = ctx] ELSE t1
            IN /\ tasks' = Replace(tasks, t2)
               /\ resp' = Resp("PATCH task", id, 200, TRUE)
               /\ UNCHANGED <<nextId, team>>
    /\ readBoard
    /\ UNCHANGED besidesBoard

\* DELETE /api/tasks/:id
DeleteTask ==
  \E id \in TaskIds :
    /\ IF ~HasTask(tasks, id) THEN Reply("DELETE task", id, 404)
       ELSE /\ tasks' = {t \in tasks : t.id # id}
            /\ resp' = Resp("DELETE task", id, 200, TRUE)
            /\ UNCHANGED <<nextId, team>>
    /\ readBoard
    /\ UNCHANGED besidesBoard

\* POST /api/tasks/:id/context
PostContext ==
  \E id \in TaskIds, rawPath \in RawPaths :
    /\ IF ~HasTask(tasks, id) THEN Reply("POST context", id, 404)
       ELSE IF rawPath = EmptyPath THEN Reply("POST context", id, 400)
       ELSE IF isAbsolute(rawPath) THEN Reply("POST context", id, 400)
       ELSE IF team = EmptyPath THEN Reply("POST context", id, 400)
       ELSE LET filePath == resolve(team, rawPath)
                task == TaskOf(tasks, id)
            IN IF ~Within(team, filePath) THEN Reply("POST context", id, 400)
               ELSE IF SomeRef(task.context, filePath)
                 THEN Reply("POST context", id, 201)
               ELSE /\ Len(task.context) < MaxCtx
                    /\ tasks' = Replace(tasks, [task EXCEPT !.context = Append(@, filePath)])
                    /\ resp' = Resp("POST context", id, 201, TRUE)
                    /\ UNCHANGED <<nextId, team>>
    /\ readBoard
    /\ UNCHANGED besidesBoard

\* POST /api/tasks/:id/refs
PostRef ==
  \E id \in TaskIds, targetId \in TaskIds, refType \in RefTypeInputs \cup {Absent} :
    /\ IF ~HasTask(tasks, id) THEN Reply("POST ref", id, 404)
       ELSE IF refType = Absent THEN Reply("POST ref", id, 400)
       ELSE IF ~HasTask(tasks, targetId) THEN Reply("POST ref", id, 404)
       ELSE IF SomeRef(TaskOf(tasks, id).refs, TaskRef(targetId, refType))
         THEN Reply("POST ref", id, 200)
       ELSE
         LET task == [TaskOf(tasks, id) EXCEPT !.refs = Append(@, TaskRef(targetId, refType))]
             ts1 == Replace(tasks, task)
             target == TaskOf(ts1, targetId)
             inverse == TaskRef(id, inverseType(refType))
             ts2 == IF SomeRef(target.refs, inverse) THEN ts1
                    ELSE Replace(ts1, [target EXCEPT !.refs = Append(@, inverse)])
         IN /\ \A t \in ts2 : Len(t.refs) <= MaxRefs
            /\ tasks' = ts2
            /\ resp' = Resp("POST ref", id, 201, TRUE)
            /\ UNCHANGED <<nextId, team>>
    /\ readBoard
    /\ UNCHANGED besidesBoard

\* DELETE /api/tasks/:id/refs/:targetId
DeleteRefOf(id, targetId) ==
    /\ IF ~HasTask(tasks, id) THEN Reply("DELETE ref", id, 404)
       ELSE
         LET task == TaskOf(tasks, id)
             ToTarget == {TaskRef(targetId, t) : t \in RefTypes}
             refIdx == FirstIndex(task.refs, ToTarget)
             removed == IF refIdx > 0 THEN task.refs[refIdx].type ELSE Absent
             ts1 == IF refIdx > 0
                      THEN Replace(tasks, [task EXCEPT !.refs = Splice(@, refIdx)])
                      ELSE tasks
             ts2 == IF removed # Absent /\ HasTask(ts1, targetId)
                      THEN LET target == TaskOf(ts1, targetId)
                               Inv == {TaskRef(id, inverseType(removed))}
                               invIdx == FirstIndex(target.refs, Inv)
                           IN IF invIdx > 0
                                THEN Replace(ts1, [target EXCEPT !.refs = Splice(@, invIdx)])
                                ELSE ts1
                      ELSE ts1
         IN /\ tasks' = ts2
            /\ resp' = Resp("DELETE ref", id, 200, TRUE)
            /\ UNCHANGED <<nextId, team>>
    /\ readBoard
    /\ UNCHANGED besidesBoard

DeleteRef == \E id \in TaskIds, targetId \in TaskIds : DeleteRefOf(id, targetId)

\* POST /api/team/connect for the team of this board, with the projectDir
\* of the body ("" when missing)
\* variant: setActiveTeam is called before the body is validated
connectSwitchesTeamAlways(valid) == TRUE
\* setActiveTeam(teamConfig.teamName) stands behind the 400 of the validation
connectSwitchesTeam(valid) == valid

TeamConnect ==
  \E dir \in ProjectDirs \cup {EmptyPath} :
    /\ IF dir = EmptyPath
         THEN /\ Reply("POST connect", 0, 400)
              /\ UNCHANGED boardOnDisk
         ELSE /\ team' = dir
              /\ readBoard
              /\ resp' = Resp("POST connect", 0, 200, TRUE)
              /\ UNCHANGED <<tasks, nextId>>
    /\ IF connectSwitchesTeam(dir # EmptyPath)
         THEN activeTeamName' = "a" /\ markerFile' = Marker("a")
         ELSE UNCHANGED <<activeTeamName, markerFile>>
    /\ UNCHANGED <<vars, storeVars, govVars, deliveryVars, watcherVars, teamVars, flightVars, epochVars, callVars, logVars, spc, sname, sprev, sdone>>

\* POST /api/team/start: the supervisor starts the team, or refuses (409)
\* because it is running already
TeamStart ==
  \E refused \in BOOLEAN :
    /\ IF team = NoTeam THEN Reply("POST start", 0, 400)
       ELSE IF refused THEN Reply("POST start", 0, 409)
       ELSE Reply("POST start", 0, 200)
    /\ readBoard
    /\ UNCHANGED besidesBoard

NextBoard ==
  \/ PostTask
  \/ PatchTask
  \/ DeleteTask
  \/ PostContext
  \/ PostRef
  \/ DeleteRef
  \/ TeamConnect
  \/ TeamStart

SpecBoard == Init /\ [][NextBoard]_boardVars

\* ------------------------------------------- one request to a saved board
\* The server is started on a board that earlier requests left on the disk,
\* and serves one request.
\* POST task, POST task, POST ref, and PATCH task with a context or without
LinkedTasks(refType, ctx) ==
  { [Task(1, "done") EXCEPT !.refs = <<TaskRef(2, refType)>>, !.context = ctx],
    [Task(2, "backlog") EXCEPT !.refs = <<TaskRef(1, inverseType(refType))>>] }
SavedTasks ==
  {{}, {Task(1, "backlog")}}
    \cup {LinkedTasks(t, ctx) : t \in RefTypeInputs, ctx \in ContextInputs \cup {<<>>}}

InitRequest ==
  /\ SupervisorInit
  /\ RestInit
  /\ \E ts \in SavedTasks, connected \in BOOLEAN, onDisk \in BOOLEAN :
       /\ onDisk \/ (ts = {} /\ ~connected)
       /\ tasks = ts
       /\ nextId = Cardinality(ts) + 1
       /\ boardOnDisk = onDisk
       /\ team = IF connected THEN Abs(<<"p">>) ELSE NoTeam
       /\ markerFile = IF connected THEN Marker("a") ELSE Missing
       /\ activeTeamName = IF connected THEN "a" ELSE Null
       /\ resp = NoResp

NextRequest ==
  \/ resp = NoResp /\ PostTask
  \/ resp = NoResp /\ PatchTask
  \/ resp = NoResp /\ DeleteTask
  \/ resp = NoResp /\ PostContext
  \/ resp = NoResp /\ PostRef
  \/ resp = NoResp /\ DeleteRef
  \/ resp = NoResp /\ TeamConnect
  \/ resp = NoResp /\ TeamStart

SpecRequest == InitRequest /\ [][NextRequest]_boardVars

\* ===================================================== the board store
\* writeBoardSync of the server, system call by system call, against reads
\* of the board file by another process (an agent, a second reader).  The
\* calls of one Node process do not overlap: one writeBoardSync at a time.
besidesStore == <<vars, boardVars, markerVars, govVars, deliveryVars, watcherVars, logVars, callVars, epochVars, flightVars, teamVars>>

\* variant: the document is written straight to the board file
tmpPathInPlace == boardPath
\* const tmp = boardPath + ".tmp"
tmpPath == "board.json.tmp"

\* fs.writeFileSync(tmp, ...): open(tmp, O_WRONLY | O_CREAT | O_TRUNC)
WriteOpen ==
  /\ wpc = "idle" /\ nWrites < MaxWrites
  /\ IF files[tmpPath] # 0
       THEN /\ inodes' = [inodes EXCEPT ![files[tmpPath]] = <<>>]
            /\ wfd' = files[tmpPath]
            /\ UNCHANGED <<files, nextInode>>
       ELSE /\ nextInode <= MaxInodes
            /\ files' = [files EXCEPT ![tmpPath] = nextInode]
            /\ wfd' = nextInode
            /\ nextInode' = nextInode + 1
            /\ inodes' = Append(inodes, <<>>)
  /\ nWrites' = nWrites + 1
  /\ wpc' = "writing"
  /\ UNCHANGED <<rfd, got, besidesStore>>

\* fs.writeFileSync(tmp, ...): write(fd, chunk), close(fd) after the last
WriteChunk ==
  /\ wpc = "writing"
  /\ inodes' = [inodes EXCEPT ![wfd] = Append(@, nWrites)]
  /\ wpc' = IF inodes'[wfd] = Doc(nWrites) THEN "written" ELSE "writing"
  /\ wfd' = IF inodes'[wfd] = Doc(nWrites) THEN 0 ELSE wfd
  /\ UNCHANGED <<files, nextInode, nWrites, rfd, got, besidesStore>>

\* fs.renameSync(tmp, boardPath)
WriteRename ==
  /\ wpc = "written"
  /\ files' = IF tmpPath = boardPath THEN files
            ELSE [files EXCEPT ![boardPath] = files[tmpPath], ![tmpPath] = 0]
  /\ wpc' = "idle"
  /\ UNCHANGED <<inodes, nextInode, wfd, nWrites, rfd, got, besidesStore>>

\* the server process dies in the middle of writeBoardSync and is restarted
WriterRestart ==
  /\ wpc # "idle"
  /\ wpc' = "idle"
  /\ wfd' = 0
  /\ UNCHANGED <<files, inodes, nextInode, nWrites, rfd, got, besidesStore>>

\* fs.readFileSync(boardPath, "utf-8"): open, then read to the end
ReadOpen ==
  /\ rfd = 0 /\ files[boardPath] # 0
  /\ rfd' = files[boardPath]
  /\ UNCHANGED <<files, inodes, nextInode, wpc, wfd, nWrites, got, besidesStore>>

ReadAll ==
  /\ rfd # 0
  /\ got' = inodes[rfd]
  /\ rfd' = 0
  /\ UNCHANGED <<files, inodes, nextInode, wpc, wfd, nWrites, besidesStore>>

NextStore ==
  \/ WriteOpen
  \/ WriteChunk
  \/ WriteRename
  \/ WriterRestart
  \/ ReadOpen
  \/ ReadAll

SpecStore == Init /\ [][NextStore]_storeVars

\* ================================================ the active-team marker
\* setActiveTeam of the server, system call by system call, and the restart
\* of the server process, which runs the module-load code of board-store.
besidesMarker == <<vars, boardVars, storeVars, govVars, deliveryVars, watcherVars, logVars, callVars, epochVars, flightVars, teamVars>>

\* JSON.parse(...).teamName ?? null; a document cut short does not parse
\* and the catch leaves activeTeamName as declared, null
restoreActiveTeam(content) ==
  IF \E n \in TeamNames \cup {Null} : content = Marker(n)
    THEN content[1]
    ELSE Null

getActiveTeam == activeTeamName

getBoardPath(name) ==
  IF name # Null THEN <<"boards", name>> ELSE <<"board.json">>

\* activeTeamName = name
SetAssign ==
  \E name \in TeamNames \cup {Null} :
    /\ spc = "idle"
    /\ sprev' = activeTeamName
    /\ sname' = name
    /\ activeTeamName' = name
    /\ spc' = "assigned"
    /\ UNCHANGED <<markerFile, sdone, besidesMarker>>

\* fs.writeFileSync(ACTIVE_TEAM_PATH, ...): open(O_WRONLY | O_CREAT | O_TRUNC)
SetOpen ==
  /\ spc = "assigned"
  /\ markerFile' = <<>>
  /\ spc' = "writing"
  /\ UNCHANGED <<activeTeamName, sname, sprev, sdone, besidesMarker>>

\* fs.writeFileSync(ACTIVE_TEAM_PATH, ...): write(fd, chunk), close(fd) after the last
SetWrite ==
  /\ spc = "writing"
  /\ markerFile' = Append(markerFile, sname)
  /\ IF markerFile' = Marker(sname)
       THEN spc' = "idle" /\ sdone' = sname
       ELSE UNCHANGED <<spc, sdone>>
  /\ UNCHANGED <<activeTeamName, sname, sprev, besidesMarker>>

\* the server process stops, at any point, and is started again: module load
MarkerRestart ==
  /\ activeTeamName' = restoreActiveTeam(markerFile)
  /\ spc' = "idle"
  /\ UNCHANGED <<markerFile, sname, sprev, sdone, besidesMarker>>

NextMarker ==
  \/ SetAssign
  \/ SetOpen
  \/ SetWrite
  \/ MarkerRestart

SpecMarker == Init /\ [][NextMarker]_markerVars

\* ==================================================== the turn governor
\* createTurnGovernor with both callbacks given and the default
\* warningThreshold, 0.1.
besidesGovernor == <<vars, boardVars, storeVars, markerVars, deliveryVars, watcherVars, logVars, callVars, epochVars, flightVars, teamVars>>

\* remaining / maxTurns <= warningThreshold, for maxTurns > 0
belowThreshold(used) == 10 * (govMaxTurns - used) <= govMaxTurns

\* variant: no latch on warningFired
checkWarningUnlatched(used) == belowThreshold(used)
checkWarning(used) ==
  ~warningFired /\ belowThreshold(used)

\* variant: exhausted only above maxTurns
budgetExhaustedStrict(used) == used > govMaxTurns
\* if (turnsUsed >= maxTurns)
budgetExhausted(used) == used >= govMaxTurns

\* createTurnGovernor(options): a new governor
createTurnGovernor(maxTurns) ==
  /\ govMaxTurns' = maxTurns
  /\ turnsUsed' = 0
  /\ exhausted' = FALSE
  /\ warningFired' = FALSE
  /\ exhaustedCalls' = 0
  /\ warningCalls' = 0
  /\ resetCalls' = 0
  /\ glast' = Call("create", maxTurns, 0)

CreateTurnGovernor ==
  \E maxTurns \in MaxTurnsOptions :
    /\ createTurnGovernor(maxTurns)
    /\ UNCHANGED besidesGovernor

\* recordTurns(count)
recordTurns(count) ==
  /\ turnsUsed' = turnsUsed + count
  /\ IF checkWarning(turnsUsed')
       THEN /\ warningFired' = TRUE
            /\ warningCalls' = Min(warningCalls + 1, MaxFired)
       ELSE UNCHANGED <<warningFired, warningCalls>>
  /\ IF budgetExhausted(turnsUsed')
       THEN /\ exhausted' = TRUE
            /\ exhaustedCalls' = Min(exhaustedCalls + 1, MaxFired)
            /\ glast' = Call("recordTurns", count, 0)
       ELSE /\ UNCHANGED <<exhausted, exhaustedCalls>>
            /\ glast' = Call("recordTurns", count, 1)
  /\ UNCHANGED <<govMaxTurns, resetCalls>>

RecordTurns ==
  \E count \in TurnCounts :
    /\ turnsUsed + count <= MaxTurnsUsed
    /\ recordTurns(count)
    /\ UNCHANGED besidesGovernor

\* variant: the cap is handed out whatever remains
allocateCycleBudgetUncapped(perCycleCap) ==
  LET remaining == govMaxTurns - turnsUsed
  IN IF remaining <= 0 THEN 0 ELSE perCycleCap
allocateCycleBudget(perCycleCap) ==
  LET remaining == govMaxTurns - turnsUsed
  IN IF remaining <= 0 THEN 0 ELSE Min(perCycleCap, remaining)

AllocateCycleBudget ==
  \E perCycleCap \in PerCycleCaps :
    /\ glast' = Call("allocateCycleBudget", perCycleCap, allocateCycleBudget(perCycleCap))
    /\ UNCHANGED <<govMaxTurns, turnsUsed, exhausted, warningFired, exhaustedCalls,
                   warningCalls, resetCalls, besidesGovernor>>

canSpawn == ~exhausted /\ turnsUsed < govMaxTurns

CanSpawn ==
  /\ glast' = Call("canSpawn", 0, IF canSpawn THEN 1 ELSE 0)
  /\ UNCHANGED <<govMaxTurns, turnsUsed, exhausted, warningFired, exhaustedCalls,
                 warningCalls, resetCalls, besidesGovernor>>

Reset ==
  /\ turnsUsed' = 0
  /\ exhausted' = FALSE
  /\ warningFired' = FALSE
  /\ exhaustedCalls' = 0
  /\ warningCalls' = 0
  /\ resetCalls' = Min(resetCalls + 1, MaxFired)
  /\ glast' = Call("reset", 0, 0)
  /\ UNCHANGED <<govMaxTurns, besidesGovernor>>

NextGovernor ==
  \/ CreateTurnGovernor
  \/ RecordTurns
  \/ AllocateCycleBudget
  \/ CanSpawn
  \/ Reset

SpecGovernor == Init /\ [][NextGovernor]_govVars

\* ================================== the supervisor beside a turn governor
\* The supervisor keeps its budget in totalTurnsUsed and config.maxTurns.
\* Here a governor runs beside it: created with the maxTurns the supervisor
\* works with at every accepted start(), and fed recordTurns(num_turns) at
\* every result event.
besidesBudget == <<boardVars, storeVars, markerVars, deliveryVars, watcherVars, logVars, callVars, epochVars, flightVars, teamVars>>

BudgetMaxTurns == {0, 50, 60}      \* config.maxTurns, 0 = not given
BudgetCounts == {25, 50}           \* num_turns of a result event

BudgetStart ==
  \E m \in BudgetMaxTurns :
    LET s0 == Cur("start")
        pre == [s0 EXCEPT !.currentConfig = TeamConfig(m), !.totalTurnsUsed = 0]
    IN /\ ~checkRunning(s0) => PidAvailable(pre)
       /\ BecomesSupervisor(startTeam(s0, TeamConfig(m)))
       /\ IF checkRunning(s0) THEN UNCHANGED govVars
          ELSE createTurnGovernor(EffMaxTurns(TeamConfig(m)))
       /\ UNCHANGED besidesBudget

BudgetResult ==
  /\ \E c \in procs : c.handler /\ ~c.kill
  /\ \E n \in BudgetCounts :
       /\ totalTurnsUsed + n <= MaxBudgetUsed
       /\ BecomesSupervisor(onResult(Cur("result"), n))
       /\ recordTurns(n)
       /\ UNCHANGED besidesBudget

\* stop() between two cycles; stop() while a child runs, and the start()
\* that may follow it before the child is gone, are left to Spec
StopIdle == procs = {} /\ StopTeam

NextBudget ==
  \/ BudgetStart
  \/ BudgetResult
  \/ StopIdle
  \/ NotifyBoardChanged
  \/ ChildExit
  \/ DebounceFires
  \/ Tick

SpecBudget == Init /\ [][NextBudget]_<<vars, govVars>>

\* ======================================================= event delivery
\* createEventDelivery and one deliver() call at a time, from await to
\* await.  The action and the confirm predicate settle, as they please, at
\* every attempt; the callbacks onDelivered and onExhausted return normally.
besidesDelivery == <<vars, boardVars, storeVars, markerVars, govVars, watcherVars, logVars, callVars, epochVars, flightVars, teamVars>>

\* createEventDelivery(options)
CreateEventDelivery ==
  \E k \in MaxRetriesOptions, b \in BaseDelayOptions, c \in BOOLEAN :
    /\ dpc = "idle"
    /\ dMaxRetries' = k
    /\ dBaseDelay' = b
    /\ dConfirm' = c
    /\ deliveredCount' = 0
    /\ failedCount' = 0
    /\ attempt' = 0
    /\ dtimer' = 0
    /\ elapsed' = 0
    /\ outcomes' = <<>>
    /\ waits' = <<>>
    /\ dret' = "none"
    /\ onExhaustedArgs' = <<>>
    /\ onDeliveredCalls' = 0
    /\ UNCHANGED <<dpc, besidesDelivery>>

\* failedCount++; onExhausted?.(attempts); return false
Exhausted(attempts) ==
  /\ failedCount' = failedCount + 1
  /\ onExhaustedArgs' = Append(onExhaustedArgs, attempts)
  /\ dret' = "false"
  /\ dpc' = "idle"
  /\ UNCHANGED <<deliveredCount, onDeliveredCalls>>

\* deliveredCount++; onDelivered?.(); return true
Delivered ==
  /\ deliveredCount' = deliveredCount + 1
  /\ onDeliveredCalls' = onDeliveredCalls + 1
  /\ dret' = "true"
  /\ dpc' = "idle"
  /\ UNCHANGED <<failedCount, onExhaustedArgs>>

\* variant: the same delay before every retry
backoffDelayFlat(i) == dBaseDelay
\* baseDelayMs * Math.pow(2, attempt)
backoffDelay(i) == dBaseDelay * 2^i

\* variant: one attempt fewer
attemptAllowedShort(i) == i < dMaxRetries
\* the loop condition, attempt <= maxRetries
attemptAllowed(i) == i <= dMaxRetries

\* deliver(): the call, up to the first await
Deliver ==
  /\ dpc = "idle"
  /\ deliveredCount + failedCount < MaxDeliveries
  /\ attempt' = 0
  /\ outcomes' = <<>>
  /\ waits' = <<>>
  /\ onDeliveredCalls' = 0
  /\ dtimer' = 0
  /\ elapsed' = 0
  /\ IF attemptAllowed(0)
       THEN /\ dpc' = "attempt"
            /\ dret' = "pending"
            /\ onExhaustedArgs' = <<>>
            /\ UNCHANGED <<deliveredCount, failedCount>>
       ELSE /\ failedCount' = failedCount + 1
            /\ onExhaustedArgs' = <<dMaxRetries + 1>>
            /\ dret' = "false"
            /\ UNCHANGED <<dpc, deliveredCount>>
  /\ UNCHANGED <<dMaxRetries, dBaseDelay, dConfirm, besidesDelivery>>

\* variant: the answer of confirm() is not looked at
isConfirmedAny(o) == o \in {"ok", "confirmed", "unconfirmed"}
\* if (!confirm) ..., if (confirmed) ...
isConfirmed(o) == o \in {"ok", "confirmed"}

AttemptOutcomes ==
  IF dConfirm THEN {"throw", "confirmed", "unconfirmed", "confirm throws"}
  ELSE {"throw", "ok"}

\* one turn of the loop: await action(), await confirm(), the catch, and
\* either a return or the setTimeout of the backoff
Attempt ==
  \E o \in AttemptOutcomes :
    /\ dpc = "attempt"
    /\ outcomes' = Append(outcomes, o)
    /\ IF isConfirmed(o)
         THEN Delivered /\ UNCHANGED <<attempt, dtimer, elapsed>>
         ELSE IF o \in {"throw", "confirm throws"} /\ attempt = dMaxRetries
           THEN Exhausted(attempt + 1) /\ UNCHANGED <<attempt, dtimer, elapsed>>
           ELSE IF attempt < dMaxRetries
             THEN /\ dtimer' = backoffDelay(attempt)
                  /\ elapsed' = 0
                  /\ dpc' = "waiting"
                  /\ UNCHANGED <<attempt, deliveredCount, failedCount, dret,
                                 onExhaustedArgs, onDeliveredCalls>>
             ELSE IF attemptAllowed(attempt + 1)
               THEN /\ attempt' = attempt + 1
                    /\ UNCHANGED <<dpc, dtimer, elapsed, deliveredCount, failedCount, dret,
                                   onExhaustedArgs, onDeliveredCalls>>
               ELSE /\ Exhausted(dMaxRetries + 1)
                    /\ attempt' = attempt + 1
                    /\ UNCHANGED <<dtimer, elapsed>>
    /\ UNCHANGED <<dMaxRetries, dBaseDelay, dConfirm, waits, besidesDelivery>>

\* time passes while the call waits for its timer
DeliveryTick ==
  /\ dpc = "waiting"
  /\ elapsed < backoffDelay(attempt) + MaxLate
  /\ dtimer' = IF dtimer > 0 THEN dtimer - 1 ELSE 0
  /\ elapsed' = elapsed + 1
  /\ UNCHANGED <<dMaxRetries, dBaseDelay, dConfirm, deliveredCount, failedCount, dpc,
                 attempt, outcomes, waits, dret, onExhaustedArgs, onDeliveredCalls,
                 besidesDelivery>>

\* the timer of the backoff fires: attempt++ and the loop condition
BackoffFires ==
  /\ dpc = "waiting"
  /\ dtimer = 0
  /\ waits' = Append(waits, elapsed)
  /\ attempt' = attempt + 1
  /\ elapsed' = 0
  /\ IF attemptAllowed(attempt + 1)
       THEN /\ dpc' = "attempt"
            /\ UNCHANGED <<deliveredCount, failedCount, dret, onExhaustedArgs, onDeliveredCalls>>
       ELSE Exhausted(dMaxRetries + 1)
  /\ UNCHANGED <<dMaxRetries, dBaseDelay, dConfirm, dtimer, outcomes, besidesDelivery>>

NextDelivery ==
  \/ CreateEventDelivery
  \/ Deliver
  \/ Attempt
  \/ DeliveryTick
  \/ BackoffFires

SpecDelivery == Init /\ [][NextDelivery]_deliveryVars

\* the action and confirm settle, time passes and due timers fire
SpecDeliveryLive ==
  /\ SpecDelivery
  /\ WF_deliveryVars(Attempt)
  /\ WF_deliveryVars(BackoffFires)
  /\ WF_deliveryVars(DeliveryTick /\ dtimer > 0)

\* ================================================= the resilient watcher
\* createResilientWatcher over one directory.  Calls and callbacks of the
\* watcher run one at a time; the directory is deleted and re-created by
\* other processes, at any time, also between the mkdir and the fs.watch of
\* one call.  A timer callback runs when its time has come, before more
\* time passes.
besidesWatcher == <<vars, boardVars, storeVars, markerVars, govVars, deliveryVars, logVars, callVars, epochVars, flightVars, teamVars>>

\* a subscription opened on the directory that is on the disk now
DirWatched == dirExists /\ dirGen \in watchers

\* createResilientWatcher(options), the one before it stopped
CreateResilientWatcher ==
  \E t \in HeartbeatOptions :
    /\ ~isActive /\ heartbeatTimer = NoHb /\ watchers = {}
    /\ hbTimeout' = t
    /\ reinitCount' = 0
    /\ sinceBeat' = 0
    /\ beats' = 0
    /\ wlast' = "create"
    /\ UNCHANGED <<isActive, heartbeatTimer, watchers, dirExists, dirGen, deletes,
                   besidesWatcher>>

\* variant: the directory is not re-created
ensureDirectoriesSkipped(exists) == exists
\* if (!fs.existsSync(dir)) fs.mkdirSync(dir, { recursive: true })
ensureDirectories(exists) == TRUE

\* variant: a pending timer is left to run on
armHeartbeatKeepsOld(old) == IF old # NoHb THEN old ELSE hbTimeout
\* if (heartbeatTimer) clearTimeout(heartbeatTimer); heartbeatTimer = setTimeout(..., heartbeatTimeoutMs)
armHeartbeat(old) == hbTimeout

\* resetHeartbeat(), with isActive as it is when called
resetHeartbeat(active) ==
  IF hbTimeout <= 0 \/ ~active
    THEN UNCHANGED <<heartbeatTimer, sinceBeat>>
    ELSE /\ heartbeatTimer' = armHeartbeat(heartbeatTimer)
         /\ sinceBeat' = IF heartbeatTimer' = hbTimeout THEN 0 ELSE sinceBeat

\* ensureDirectories(); initWatchers(): teardownWatchers, then fs.watch in
\* a try/catch; vanished: the directory is deleted between the two
ensureAndInit(vanished) ==
  LET there == ensureDirectories(dirExists)
      gen == IF there /\ ~dirExists THEN dirGen + 1 ELSE dirGen
  IN /\ dirGen' = gen
     /\ IF vanished /\ there
          THEN /\ deletes < MaxDeletes
               /\ deletes' = deletes + 1
               /\ dirExists' = FALSE
               /\ watchers' = {}
          ELSE /\ ~vanished
               /\ dirExists' = there
               /\ watchers' = IF there THEN {gen} ELSE {}
               /\ UNCHANGED deletes

WatcherStart ==
  \E vanished \in BOOLEAN :
    /\ isActive' = TRUE
    /\ reinitCount' = 0
    /\ ensureAndInit(vanished)
    /\ resetHeartbeat(TRUE)
    /\ wlast' = "start"
    /\ UNCHANGED <<hbTimeout, beats, besidesWatcher>>

\* variant: the timer is left pending
stopTimerKept == heartbeatTimer
\* if (heartbeatTimer) { clearTimeout(heartbeatTimer); heartbeatTimer = null }
stopTimer == NoHb

WatcherStop ==
  /\ isActive' = FALSE
  /\ watchers' = {}
  /\ heartbeatTimer' = stopTimer
  /\ wlast' = "stop"
  /\ UNCHANGED <<hbTimeout, reinitCount, dirExists, dirGen, sinceBeat, deletes, beats,
                 besidesWatcher>>

\* heartbeat()
WatcherHeartbeat ==
  /\ beats < MaxBeats
  /\ beats' = beats + 1
  /\ resetHeartbeat(isActive)
  /\ wlast' = "heartbeat"
  /\ UNCHANGED <<hbTimeout, isActive, reinitCount, watchers, dirExists, dirGen, deletes,
                 besidesWatcher>>

\* the callback of fs.watch: something changed in the watched directory
watchCallback ==
  /\ DirWatched
  /\ beats < MaxBeats
  /\ beats' = beats + 1
  /\ resetHeartbeat(isActive)
  /\ wlast' = "event"
  /\ UNCHANGED <<hbTimeout, isActive, reinitCount, watchers, dirExists, dirGen, deletes,
                 besidesWatcher>>

\* the callback of the heartbeat timer
HeartbeatExpires ==
  \E vanished \in BOOLEAN :
    /\ heartbeatTimer = 0
    /\ IF ~isActive
         THEN /\ ~vanished
              /\ heartbeatTimer' = NoHb
              /\ UNCHANGED <<reinitCount, watchers, dirExists, dirGen, sinceBeat, deletes>>
         ELSE /\ reinitCount' = Min(reinitCount + 1, MaxReinit)
              /\ ensureAndInit(vanished)
              /\ resetHeartbeat(TRUE)
    /\ wlast' = "expiry"
    /\ UNCHANGED <<hbTimeout, isActive, beats, besidesWatcher>>

\* another process deletes the directory, or makes it again
DeleteDirectory ==
  /\ dirExists /\ deletes < MaxDeletes
  /\ dirExists' = FALSE
  /\ deletes' = deletes + 1
  /\ wlast' = "deleted"
  /\ UNCHANGED <<hbTimeout, isActive, reinitCount, heartbeatTimer, watchers, dirGen,
                 sinceBeat, beats, besidesWatcher>>

RecreateDirectory ==
  /\ ~dirExists /\ dirGen > 0
  /\ dirExists' = TRUE
  /\ dirGen' = dirGen + 1
  /\ wlast' = "recreated"
  /\ UNCHANGED <<hbTimeout, isActive, reinitCount, heartbeatTimer, watchers, deletes,
                 sinceBeat, beats, besidesWatcher>>

\* one unit of time passes
WatcherTick ==
  /\ heartbeatTimer > 0
  /\ heartbeatTimer' = heartbeatTimer - 1
  /\ sinceBeat' = sinceBeat + 1
  /\ wlast' = "tick"
  /\ UNCHANGED <<hbTimeout, isActive, reinitCount, watchers, dirExists, dirGen, deletes,
                 beats, besidesWatcher>>

NextWatcher ==
  \/ CreateResilientWatcher
  \/ WatcherStart
  \/ WatcherStop
  \/ WatcherHeartbeat
  \/ watchCallback
  \/ HeartbeatExpires
  \/ DeleteDirectory
  \/ RecreateDirectory
  \/ WatcherTick

SpecWatcher == Init /\ [][NextWatcher]_watcherVars

\* time passes and a due timer runs its callback
SpecWatcherLive ==
  /\ SpecWatcher
  /\ WF_watcherVars(WatcherTick)
  /\ WF_watcherVars(HeartbeatExpires)

\* =================================================================== claims
\* the supervisor's states of team-manager's header comment
STOPPED == ~teamActive
IDLE == teamActive /\ procs = {} /\ leadProcess = NoPid
          /\ debounceTimer = NoTimer /\ strayTimers = <<>>
\* an idle debounce is counting down and nothing else is going on
Coalescing == teamActive /\ procs = {} /\ leadProcess = NoPid
                /\ debounceTimer.kind = "idle" /\ strayTimers = <<>>
Remaining == EffMaxTurns(currentConfig) - totalTurnsUsed
\* this step is the exit event of the child leadProcess refers to
LeadExited == last'.op = "exit" /\ leadProcess # NoPid /\ ~isPidAlive(procs', leadProcess)
LeakedTimer == \E i \in 1..Len(strayTimers) : strayTimers[i].kind \in {"idle", "respawn"}

\* C1: from IDLE, board changes less than 3 s apart with nothing else
\* happening only re-arm the 3 s debounce and spawn nothing, and when the
\* debounce expires (3 s after the last change) exactly one cycle is spawned.
C1_OneSpawnAfterDebounce ==
  [][ /\ ((IDLE \/ Coalescing) /\ last'.op = "notify")
           => (debounceTimer' = Timer("idle", IdleDebounceS, NoPid) /\ last'.spawned = 0)
      /\ (Coalescing /\ last'.op = "tick")
           => (last'.spawned = 0 /\ debounceTimer'.left = debounceTimer.left - 1)
      /\ (Coalescing /\ last'.op = "timer")
           => (debounceTimer.left = 0 /\ last'.spawned = 1 /\ debounceTimer' = NoTimer)
    ]_vars

\* C3: when the lead child exits less than 5 s after its spawn while the team
\* is active, the supervisor is STOPPED afterwards: teamActive false, no child
\* handle, no timer armed, onExit fired, team reported as not running.
C3_CrashGuardStops ==
  [][ (LeadExited /\ teamActive /\ sinceSpawn < CrashGuardS)
        => /\ ~teamActive'
           /\ leadProcess' = NoPid
           /\ debounceTimer' = NoTimer
           /\ last'.onExit = 1
           /\ ~isTeamRunning'
    ]_vars

\* C4: when the lead child exits with totalTurnsUsed >= maxTurns the
\* supervisor is STOPPED once the exit is handled (teamActive false, no
\* timer), whatever the pending flag and the cycle's length, and with the
\* budget used up nothing but start() spawns a cycle.
C4_ExhaustedExitStops ==
  [][ /\ (LeadExited /\ Remaining <= 0)
           => (~teamActive' /\ debounceTimer' = NoTimer)
      /\ (currentConfig # NoConfig /\ Remaining <= 0 /\ last'.op # "start")
           => last'.spawned = 0
    ]_vars

\* C5: spawnCycle launches no child when maxTurns - totalTurnsUsed <= 0;
\* it then leaves teamActive false and has called onExit; a child is only
\* ever launched with budget remaining.
C5_NoSpawnWithoutBudget ==
  /\ (last.spawnCall /\ Remaining <= 0)
       => (last.spawned = 0 /\ ~teamActive /\ last.onExit = 1)
  /\ last.spawned > 0 => (last.spawnCall /\ Remaining > 0)
C5_Witness == last.spawnCall /\ Remaining <= 0 /\ last.op = "timer"

\* C2 as claimed: whenever the lead child exits with the pending flag set,
\* the team active and budget left, the respawn is scheduled and, unless
\* stop() intervenes or the budget runs out, the next cycle is spawned when
\* the respawn timer fires.
C2_PendingAlwaysRespawns ==
  [][ /\ (LeadExited /\ teamActive /\ pendingBoardChange /\ Remaining > 0)
           => (teamActive' /\ pendingBoardChange'
               /\ debounceTimer' = Timer("respawn", RespawnDebounceS, NoPid))
      /\ (last'.op = "timer" /\ last'.fired.kind = "respawn"
            /\ currentConfig # NoConfig /\ Remaining > 0)
           => (last'.spawned = 1 /\ leadProcess' # NoPid /\ ~pendingBoardChange')
    ]_vars

\* C2 amended: the same, for a lead child that exits at least 5 s after its
\* spawn (outside the crash guard).
C2_PendingRespawnsOutsideCrashGuard ==
  [][ /\ (LeadExited /\ teamActive /\ pendingBoardChange /\ Remaining > 0
            /\ sinceSpawn >= CrashGuardS)
           => (teamActive' /\ pendingBoardChange'
               /\ debounceTimer' = Timer("respawn", RespawnDebounceS, NoPid))
      /\ (last'.op = "timer" /\ last'.fired.kind = "respawn"
            /\ currentConfig # NoConfig /\ Remaining > 0)
           => (last'.spawned = 1 /\ leadProcess' # NoPid /\ ~pendingBoardChange')
    ]_vars
\* the cycle spawned by the respawn timer of a pending change
C2_Witness ==
  /\ last.op = "timer" /\ last.fired.kind = "respawn"
  /\ last.spawned = 1 /\ teamActive /\ leadProcess # NoPid

\* C6: stop() leaves teamActive and pendingBoardChange false and no debounce
\* or respawn timer pending, and until the next start() no step spawns a
\* cycle, re-activates the team or lets notifyBoardChanged() change anything.
C6_StopIsFinal ==
  [][ /\ last'.op = "stop"
           => (~teamActive' /\ ~pendingBoardChange' /\ currentConfig' = NoConfig
               /\ debounceTimer' = NoTimer /\ ~LeakedTimer')
      /\ (currentConfig = NoConfig /\ last'.op # "start")
           => (last'.spawned = 0 /\ ~teamActive' /\ currentConfig' = NoConfig
               /\ debounceTimer' = NoTimer
               /\ (last'.op = "notify" =>
                     UNCHANGED <<leadProcess, debounceTimer, strayTimers, teamActive,
                                 pendingBoardChange, procs, persistedPid>>))
    ]_vars

\* C7: stop() with a live child handle sends SIGTERM to that child at once;
\* when the 5 s escalation timer of that stop() fires, the child gets SIGKILL
\* if it has not exited, and nothing is signalled if it has.
C7_TermThenKill ==
  [][ /\ (last'.op = "stop" /\ leadProcess # NoPid)
           => <<"SIGTERM", leadProcess>> \in last'.sigs
      /\ (last'.op = "timer" /\ last'.fired.kind = "kill")
           => (IF isPidAlive(procs, last'.fired.pid)
                 THEN last'.sigs = {<<"SIGKILL", last'.fired.pid>>}
                 ELSE last'.sigs = {})
    ]_vars

\* C8: a start() request made while the running check is true is answered
\* 409 and leaves the supervisor, the processes and the files as they were.
C8_StartWhileRunningRejected ==
  [][ (last'.op = "start" /\ isTeamRunning)
        => /\ last'.status = 409
           /\ last'.spawned = 0
           /\ UNCHANGED <<leadProcess, debounceTimer, strayTimers, teamActive,
                          pendingBoardChange, sinceSpawn, totalTurnsUsed,
                          currentConfig, procs, persistedPid, logEmpty>>
    ]_vars
\* a rejected start() in the middle of an epoch that has used turns
C8_Witness == last.op = "start" /\ last.status = 409 /\ totalTurnsUsed > 0

PersistedAlive == persistedPid # NoPid /\ isPidAlive(procs, persistedPid)
\* a child this supervisor launched and still listens to has not exited
LeadChildAlive == \E c \in procs : c.handler

\* C9 as claimed: running iff the lead child is alive or the persisted lead
\* PID is that of a live process.
C9_RunningIffChildAlive == isTeamRunning <=> (LeadChildAlive \/ PersistedAlive)

\* C9 amended: running iff the supervisor is not STOPPED (teamActive set, a
\* child alive or not) or the persisted lead PID is that of a live process;
\* so it is false once stop() has returned, also while the signalled child
\* lives on, and true when the team goes idle after a child's exit.
C9_RunningIffActiveOrPersisted ==
  /\ isTeamRunning <=> (~STOPPED \/ PersistedAlive)
  /\ last.op = "stop" => ~isTeamRunning
  /\ (last.op = "exit" /\ ~STOPPED) => (isTeamRunning /\ ~PersistedAlive)
\* running after a restart, through the persisted PID alone
C9_Witness == last.op = "restart" /\ isTeamRunning /\ STOPPED /\ leadProcess = NoPid

\* C10: the exit handler calls onExit exactly once on each of its branches,
\* and the persisted lead PID is already cleared when it is called.
C10_OnExitOncePerExit ==
  [][ last'.op = "exit"
        => (last'.onExit = 1 /\ last'.pidAtOnExit = NoPid /\ persistedPid' = NoPid)
    ]_vars
\* an exit handled on the pending branch: onExit called once, the respawn
\* timer armed, the persisted PID cleared
C10_Witness ==
  /\ last.op = "exit" /\ last.onExit = 1 /\ last.pidAtOnExit = NoPid
  /\ teamActive /\ debounceTimer.kind = "respawn"

\* ------------------------------------------------------------ C11, C12
\* the respawn timers that are pending, with or without a handle
RespawnPending ==
  (IF debounceTimer.kind = "respawn" THEN 1 ELSE 0)
    + Cardinality({i \in 1..Len(strayTimers) : strayTimers[i].kind = "respawn"})

\* C11: a board change that arrives while the team is active and a cycle's
\* child is alive only sets pendingBoardChange: it arms no timer and starts
\* no process; while a child lives nothing but start() launches a process;
\* a respawn is armed by a child's exit only, one per exit, and a spawned
\* cycle starts with the flag cleared.
C11_ChangesCoalesced ==
  [][ /\ (last'.op = "notify" /\ teamActive /\ LeadChildAlive)
           => (pendingBoardChange' /\ last'.spawned = 0
               /\ UNCHANGED <<debounceTimer, strayTimers, procs, leadProcess>>)
      /\ (LeadChildAlive /\ last'.op # "start") => last'.spawned = 0
      /\ RespawnPending' > RespawnPending
           => (last'.op = "exit" /\ RespawnPending' = RespawnPending + 1)
      /\ last'.spawned > 0 => ~pendingBoardChange'
    ]_vars

\* C12: a lead child's exit with the flag set, the team active, 5 s or more
\* after its spawn and with budget left arms the respawn timer with 1 s; a
\* pending respawn timer loses a second per second, is taken away by nothing
\* but its expiry, stop() or a server restart, expires at 0 and then spawns
\* the next cycle if the team has not been stopped and budget is left.
C12_RespawnAfterOneSecond ==
  [][ /\ (LeadExited /\ teamActive /\ pendingBoardChange /\ Remaining > 0
            /\ sinceSpawn >= CrashGuardS)
           => (debounceTimer' = Timer("respawn", RespawnDebounceS, NoPid)
               /\ last'.spawned = 0)
      /\ (last'.op = "tick" /\ debounceTimer.kind = "respawn")
           => (debounceTimer.left = RespawnDebounceS /\ debounceTimer'.left = 0)
      /\ (RespawnPending' < RespawnPending)
           => \/ (last'.op = "timer" /\ last'.fired.kind = "respawn"
                 /\ RespawnPending' = RespawnPending - 1)
              \/ last'.op \in {"stop", "restart"}
      /\ (last'.op = "timer" /\ last'.fired.kind = "respawn")
           => (last'.fired.left = 0
               /\ (teamActive /\ currentConfig # NoConfig /\ Remaining > 0
                     => (last'.spawned = 1 /\ sinceSpawn' = 0)))
    ]_vars
\* --------------------------------------------------------------- C13 - C16
\* C13: in every board on disk, for every ref (A, type, B) on task A, task
\* B exists and carries the inverse ref (B, inverse(type), A).
C13_RefsTwoSided ==
  \A t \in tasks : \A i \in 1..Len(t.refs) :
    LET r == t.refs[i]
    IN /\ r.type \in RefTypes
       /\ HasTask(tasks, r.taskId)
       /\ SomeRef(TaskOf(tasks, r.taskId).refs, TaskRef(t.id, inverseType(r.type)))

\* C14: after a DELETE /api/tasks/X answered 200, task X is not on the board
\* and no task has a ref whose taskId is X.
C14_DeleteStripsRefs ==
  (resp.op = "DELETE task" /\ resp.status = 200)
    => /\ ~HasTask(tasks, resp.id)
       /\ \A t \in tasks : \A i \in 1..Len(t.refs) : t.refs[i].taskId # resp.id

\* C15: every task's column is one of the five column ids, and a request
\* that wrote the board was not answered 4xx.
C15_ColumnsKnown ==
  /\ \A t \in tasks : t.column \in Columns
  /\ resp.status >= 400 => ~resp.wrote

\* C16: every file-context path on a task lies under the projectDir of the
\* connected team (so a team is connected), and a context request answered
\* 400 wrote nothing.
C16_ContextUnderProjectDir ==
  /\ \A t \in tasks : \A i \in 1..Len(t.context) :
       team # NoTeam /\ Within(team, t.context[i])
  /\ (resp.op = "POST context" /\ resp.status = 400) => ~resp.wrote

\* --------------------------------------------------------------------- C17
\* C17: whatever the interleaving of writes (temp file, then rename) and
\* reads, a read of the board returns the complete document passed to one
\* of the writes so far, or the board before any write.
C17_ReadsSeeWholeDocument ==
  got # NoRead => \E d \in 0..nWrites : got = Doc(d)
\* a read that was opened before a rename and finished after it, and
\* returned the older document
C17_Witness ==
  /\ got = Doc(1) /\ inodes[files[boardPath]] = Doc(2) /\ wpc = "writing"

\* --------------------------------------------------------------------- C18
\* C18: a restart in the middle of setActiveTeam(x) brings the active team
\* back as the value before the call or as x; a restart after a completed
\* setActiveTeam(x) brings back x and the board path of x.
C18_MarkerSurvivesRestart ==
  [][ MarkerRestart =>
        /\ spc # "idle" => activeTeamName' \in {sprev, sname}
        /\ (spc = "idle" /\ sdone # NoneYet) =>
             /\ activeTeamName' = sdone
             /\ getBoardPath(activeTeamName') = getBoardPath(sdone) ]_markerVars

\* --------------------------------------------------------------------- C19
\* C19: between two reset() calls onBudgetExhausted is called at most once,
\* by the recordTurns call that first brings turnsUsed to maxTurns or above.
C19_ExhaustedOncePerEpoch ==
  [][ /\ exhaustedCalls' <= 1
      /\ exhaustedCalls' > exhaustedCalls =>
           (glast'.op = "recordTurns" /\ turnsUsed < govMaxTurns /\ turnsUsed' >= govMaxTurns) ]_govVars

\* --------------------------------------------------------------------- C20
\* C20: allocateCycleBudget(perCycleCap) returns
\* max(0, min(perCycleCap, maxTurns - turnsUsed)) for every integer
\* perCycleCap and leaves the governor's state as it was.
C20_AllocationClamped ==
  [][ glast'.op = "allocateCycleBudget" =>
        /\ LET m == Min(glast'.arg, govMaxTurns - turnsUsed)
           IN glast'.ret = IF m < 0 THEN 0 ELSE m
        /\ UNCHANGED <<govMaxTurns, turnsUsed, exhausted, warningFired>> ]_govVars

\* --------------------------------------------------------------------- C21
\* C21 as stated: allocateCycleBudget(c) <= min(c, maxTurns - turnsUsed),
\* also with turnsUsed above maxTurns, and 0 once the governor is exhausted.
C21_AllocationAtMostRemaining ==
  glast.op = "allocateCycleBudget" =>
    /\ glast.ret <= Min(glast.arg, govMaxTurns - turnsUsed)
    /\ exhausted => glast.ret = 0
\* C21, amended: allocateCycleBudget(c) <= max(0, min(c, maxTurns - turnsUsed)),
\* and it is 0 once the governor is exhausted.
C21_AllocationAtMostClampedRemaining ==
  glast.op = "allocateCycleBudget" =>
    /\ LET m == Min(glast.arg, govMaxTurns - turnsUsed)
       IN glast.ret <= IF m < 0 THEN 0 ELSE m
    /\ exhausted => glast.ret = 0
\* an allocation asked of a governor whose turnsUsed is above maxTurns
C21_Witness ==
  /\ glast.op = "allocateCycleBudget" /\ glast.arg > 0 /\ glast.ret = 0
  /\ exhausted /\ turnsUsed > govMaxTurns

\* --------------------------------------------------------------------- C22
\* C22: recordTurns(n), n >= 0, adds n to turnsUsed, also beyond maxTurns,
\* and returns false exactly when turnsUsed >= maxTurns after the call; an
\* exhausted governor stays exhausted, and canSpawn() false, until reset().
C22_RecordTurnsAccounting ==
  [][ /\ glast'.op = "recordTurns" =>
           /\ glast'.arg >= 0
           /\ turnsUsed' = turnsUsed + glast'.arg
           /\ glast'.ret = 0 <=> turnsUsed' >= govMaxTurns
           /\ exhausted' <=> (exhausted \/ glast'.ret = 0)
      /\ (exhausted /\ glast'.op \notin {"reset", "create"}) => (exhausted' /\ ~canSpawn')
      /\ (glast'.op = "canSpawn" /\ exhausted) => glast'.ret = 0
      /\ glast'.op = "reset" => (~exhausted' /\ turnsUsed' = 0) ]_govVars
\* canSpawn() answered false by a governor taken above maxTurns
C22_Witness ==
  /\ glast.op = "canSpawn" /\ glast.ret = 0
  /\ exhausted /\ turnsUsed > govMaxTurns

\* --------------------------------------------------------------------- C23
\* C23: between two reset() calls onBudgetWarning is called at most once,
\* by the first recordTurns call after which remaining / maxTurns is at
\* most 0.1; reset() zeroes turnsUsed, clears exhausted and re-arms the
\* warning.
C23_WarningOncePerEpoch ==
  [][ /\ warningCalls' <= 1
      /\ warningCalls' > warningCalls <=>
           /\ glast'.op = "recordTurns"
           /\ ~belowThreshold(turnsUsed)
           /\ belowThreshold(turnsUsed')
      /\ glast'.op = "reset" =>
           /\ turnsUsed' = 0 /\ ~exhausted' /\ ~warningFired'
           /\ ~belowThreshold(turnsUsed') ]_govVars
\* the warning of a second epoch, given with one turn of ten remaining
C23_Witness ==
  /\ resetCalls = 1 /\ warningCalls = 1 /\ warningFired
  /\ glast.op = "recordTurns" /\ govMaxTurns = 10 /\ turnsUsed = 9

\* --------------------------------------------------------------------- C24
\* a deliver() call returns in this step
Returns == dpc # "idle" /\ dpc' = "idle"
AllOutcomes(os, o) == \A i \in 1..Len(os) : os[i] = o
\* C24: with maxRetries = k >= 0 and an action that throws at every
\* attempt, one deliver() call calls the action k + 1 times, returns false,
\* calls onExhausted once and adds 1 to failedCount and nothing to
\* deliveredCount; and every deliver() call returns.
C24_AlwaysThrowingExhausts ==
  /\ [][ /\ dpc' # "idle" =>
              (UNCHANGED <<deliveredCount, failedCount>> /\ onExhaustedArgs' = <<>>)
         /\ (Returns /\ AllOutcomes(outcomes', "throw")) =>
              /\ Len(outcomes') = dMaxRetries + 1
              /\ dret' = "false"
              /\ Len(onExhaustedArgs') = 1
              /\ failedCount' = failedCount + 1
              /\ deliveredCount' = deliveredCount ]_deliveryVars
  /\ (dpc # "idle") ~> (dpc = "idle")
\* a call with maxRetries = 2 that returned false after three throwing attempts
C24_Witness ==
  /\ dpc = "idle" /\ dret = "false" /\ dMaxRetries = 2
  /\ outcomes = <<"throw", "throw", "throw">>
  /\ failedCount = 1 /\ deliveredCount = 0

\* --------------------------------------------------------------------- C25
\* the attempt of this step ended as o
AttemptEnded(o) ==
  Len(outcomes') = Len(outcomes) + 1 /\ outcomes'[Len(outcomes')] = o
\* what follows an attempt that failed: the backoff, or after the final
\* attempt the return of false
FailedAttempt ==
  /\ attempt < dMaxRetries =>
       /\ dpc' = "waiting" /\ dtimer' = dBaseDelay * 2^attempt
       /\ UNCHANGED <<deliveredCount, failedCount, onExhaustedArgs>>
  /\ attempt = dMaxRetries =>
       /\ dpc' = "idle" /\ dret' = "false"
       /\ failedCount' = failedCount + 1
       /\ deliveredCount' = deliveredCount
       /\ onExhaustedArgs' = <<dMaxRetries + 1>>
\* C25: an attempt whose action succeeded and whose confirm() returned
\* false is followed by what follows a failed attempt; with confirm always
\* false the action is called maxRetries + 1 times, deliver() returns false
\* and failedCount goes up by 1; deliver() returns true at the first
\* attempt whose confirm() returns true, with no further call of the action.
C25_UnconfirmedCountsAsFailed ==
  [][ /\ AttemptEnded("unconfirmed") => FailedAttempt
      /\ AttemptEnded("throw") => FailedAttempt
      /\ (Returns /\ AllOutcomes(outcomes', "unconfirmed")) =>
           /\ Len(outcomes') = dMaxRetries + 1
           /\ dret' = "false"
           /\ failedCount' = failedCount + 1
      /\ AttemptEnded("confirmed") =>
           /\ dpc' = "idle" /\ dret' = "true"
           /\ deliveredCount' = deliveredCount + 1
           /\ failedCount' = failedCount
      /\ \A i \in 1..(Len(outcomes') - 1) : outcomes'[i] # "confirmed" ]_deliveryVars
\* a call confirmed at its second attempt, after one backoff
C25_Witness ==
  /\ dConfirm /\ dpc = "idle" /\ dret = "true"
  /\ outcomes = <<"unconfirmed", "confirmed">> /\ Len(waits) = 1

\* --------------------------------------------------------------------- C26
\* C26: within one deliver() call the wait after attempt i, counted from
\* 0, is at least baseDelayMs * 2^i, every attempt but the first follows
\* such a wait, and no wait follows attempt number maxRetries.
C26_BackoffDoubles ==
  /\ \A i \in 1..Len(waits) : waits[i] >= dBaseDelay * 2^(i - 1)
  /\ dpc = "attempt" => Len(waits) = Len(outcomes)
  /\ dpc = "waiting" => (Len(waits) = Len(outcomes) - 1 /\ Len(outcomes) <= dMaxRetries)
  /\ (dpc = "idle" /\ dret # "none") => Len(waits) = Len(outcomes) - 1
\* a call that waited twice, the second time at least twice as long
C26_Witness ==
  /\ dpc = "idle" /\ dBaseDelay = 2 /\ Len(outcomes) = 3
  /\ Len(waits) = 2 /\ waits[1] = 2 /\ waits[2] >= 4

\* --------------------------------------------------------------------- C27
\* the callback of the heartbeat timer runs, on an active watcher, in this step
Reinitialises == heartbeatTimer = 0 /\ isActive /\ wlast' = "expiry"
\* C27: with the heartbeat enabled and the watcher started, a heartbeat
\* expiry adds 1 to reinitCount, re-creates a deleted directory and opens a
\* subscription on the directory that is there, and after every deletion
\* such an expiry comes, unless the watcher is stopped first.
C27_DeletedDirectoryRecovered ==
  /\ [][ Reinitialises =>
           /\ reinitCount < MaxReinit => reinitCount' = reinitCount + 1
           /\ heartbeatTimer' = hbTimeout
           /\ deletes' = deletes => (dirExists' /\ DirWatched' /\ watchers' = {dirGen'}) ]_watcherVars
  /\ (isActive /\ hbTimeout > 0 /\ ~DirWatched) ~> (DirWatched \/ ~isActive)
\* the directory was deleted once, and the expiry after that made it again
C27_Witness ==
  /\ wlast = "expiry" /\ isActive /\ deletes = 1 /\ dirGen = 2
  /\ reinitCount = 1 /\ DirWatched

\* --------------------------------------------------------------------- C28
\* C28: after stop() no heartbeat timer is pending and no subscription is
\* open; until the next start() it stays so and reinitCount keeps its
\* value, whatever is called: a second stop() changes nothing and
\* heartbeat() does not arm the timer.
C28_StopIsFinalAndIdempotent ==
  [][ /\ wlast' = "stop" => (~isActive' /\ heartbeatTimer' = NoHb /\ watchers' = {})
      /\ (~isActive /\ wlast' # "start") =>
           /\ ~isActive' /\ heartbeatTimer' = NoHb /\ watchers' = {}
           /\ wlast' # "create" => reinitCount' = reinitCount
      /\ (~isActive /\ wlast' \in {"stop", "heartbeat"}) =>
           UNCHANGED <<hbTimeout, isActive, reinitCount, heartbeatTimer, watchers,
                       dirExists, dirGen, sinceBeat, deletes>> ]_watcherVars
\* heartbeat() called on a stopped watcher that had re-initialised before
C28_Witness ==
  /\ ~isActive /\ wlast = "heartbeat" /\ hbTimeout > 0
  /\ reinitCount > 0 /\ heartbeatTimer = NoHb

\* --------------------------------------------------------------------- C29
\* C29: every watch event and every heartbeat() call on an active watcher
\* with the heartbeat enabled restarts the whole heartbeatTimeoutMs
\* countdown and leaves reinitCount alone; reinitCount goes up, by 1, only
\* in the timer callback, and that runs exactly heartbeatTimeoutMs after
\* the latest of them.
C29_HeartbeatRestartsCountdown ==
  [][ /\ (isActive /\ hbTimeout > 0 /\ beats' = beats + 1) =>
           (heartbeatTimer' = hbTimeout /\ reinitCount' = reinitCount)
      /\ (reinitCount' # reinitCount /\ wlast' \notin {"start", "create"}) =>
           (Reinitialises /\ reinitCount' = reinitCount + 1)
      /\ Reinitialises =>
           /\ sinceBeat = hbTimeout
           /\ reinitCount < MaxReinit => reinitCount' = reinitCount + 1
      /\ (isActive /\ hbTimeout > 0) => (sinceBeat' <= hbTimeout /\ heartbeatTimer = hbTimeout - sinceBeat) ]_watcherVars
\* the timer ran out after two heartbeats had put it off
C29_Witness ==
  /\ wlast = "expiry" /\ isActive /\ beats = 2 /\ reinitCount = 1

\* --------------------------------------------------------------------- C30
\* C30 as stated: a request answered 4xx leaves the board document and the
\* active-team marker exactly as they were.
C30_RejectedRequestChangesNothing ==
  [][ resp'.status >= 400 =>
        UNCHANGED <<tasks, team, boardOnDisk, markerFile, activeTeamName>> ]_boardVars
\* C30, amended: a request answered 4xx leaves the content of the board
\* and the active-team marker as they were; all it may do is write the
\* default board to a board file that did not exist.
C30_RejectedRequestKeepsContent ==
  [][ resp'.status >= 400 =>
        /\ UNCHANGED <<tasks, team, markerFile, activeTeamName>>
        /\ ~resp'.wrote
        /\ boardOnDisk => boardOnDisk'
        /\ boardOnDisk' # boardOnDisk => (tasks' = {} /\ team' = NoTeam) ]_boardVars
\* an escaping context path refused with 400 on a board with a team and a task
C30_Witness ==
  /\ resp.op = "POST context" /\ resp.status = 400
  /\ team # NoTeam /\ activeTeamName = "a" /\ tasks # {}

\* ===================================== the supervisor, cycle by cycle
\* The supervisor's handlers as in Spec (without server restarts), with a
\* record of what every cycle was given and has reported.  The cycles keep
\* to their limit: a child reports no more turns in total than the
\* --max-turns it was started with, and it reports at least one turn before
\* it exits.
besidesEpochs == <<boardVars, storeVars, markerVars, govVars, deliveryVars, watcherVars,
                   logVars, callVars, flightVars, teamVars>>

\* what the handler that just ran means for the record: a spawned cycle is
\* entered under its pid with its limit, an accepted start() begins the count
Track(reporter, n) ==
  /\ cycles' = [p \in DOMAIN cycles \cup (IF last'.spawned > 0 THEN {leadProcess'} ELSE {}) |->
                  IF last'.spawned > 0 /\ p = leadProcess'
                    THEN [limit |-> last'.cycleTurns, reported |-> 0]
                  ELSE IF p = reporter THEN [cycles[p] EXCEPT !.reported = @ + n]
                  ELSE cycles[p]]
  /\ cyclesSpawned' = IF last'.op = "start" /\ last'.status = 200 THEN last'.spawned
                      ELSE Min(cyclesSpawned + last'.spawned, MaxCycles)
  /\ UNCHANGED besidesEpochs

EpochStart == StartTeamStep /\ Track(NoPid, 0)
EpochStop == StopTeamStep /\ Track(NoPid, 0)
EpochNotify == NotifyBoardChangedStep /\ Track(NoPid, 0)
EpochDebounceFires == DebounceFiresStep /\ Track(NoPid, 0)
EpochStrayFires == StrayFiresStep /\ Track(NoPid, 0)
EpochTick == TickStep /\ Track(NoPid, 0)

\* a result event of child c, within the limit of its cycle
EpochResult ==
  \E c \in procs, n \in 1..MaxReport :
    /\ c.handler /\ ~c.kill
    /\ cycles[c.pid].reported + n <= cycles[c.pid].limit
    /\ BecomesSupervisor(onResult(Cur("result"), n))
    /\ Track(c.pid, n)

\* the exit of child c, after it has reported
EpochExit ==
  \E c \in procs :
    /\ cycles[c.pid].reported >= 1
    /\ ChildExitOf(c)
    /\ Track(NoPid, 0)

NextEpochs ==
  \/ EpochStart
  \/ EpochStop
  \/ EpochNotify
  \/ EpochResult
  \/ EpochExit
  \/ EpochDebounceFires
  \/ EpochStrayFires
  \/ EpochTick

SpecEpochs == Init /\ [][NextEpochs]_<<vars, epochVars>>

\* ========================================= event delivery, calls overlapping
\* deliver() as a function of the call's own state: what one stretch of the
\* call between two awaits does to the call and to the two counters.  A
\* callback named in cThrows throws when it is called.
besidesCalls == <<vars, boardVars, storeVars, markerVars, govVars, deliveryVars, watcherVars, logVars, epochVars, flightVars, teamVars>>

CallRetries == 0..1
CallOutcomes == {"throw", "ok", "unconfirmed"}

\* failedCount++; onExhausted?.(...); return false -- or the exception of
\* onExhausted, which nothing catches: the promise is rejected
exhaust(c) ==
  [c EXCEPT !.failed = @ + 1, !.onExhausted = @ + 1, !.pc = "done",
            !.ret = IF "onExhausted" \in cThrows THEN "rejected" ELSE "false"]

\* the catch block and what follows it, for an exception in the try block
caught(c) ==
  IF c.attempt = cMaxRetries THEN exhaust(c)
  ELSE [c EXCEPT !.pc = "waiting"]

\* the try block after await action() / await confirm() has settled
afterAction(c, o) ==
  CASE o = "ok" ->
         LET d == [c EXCEPT !.delivered = @ + 1, !.onDelivered = @ + 1]
         IN IF "onDelivered" \in cThrows THEN caught(d)
            ELSE [d EXCEPT !.pc = "done", !.ret = "true"]
    [] o = "throw" -> caught(c)
    [] OTHER ->
         IF c.attempt < cMaxRetries THEN [c EXCEPT !.pc = "waiting"]
         ELSE exhaust([c EXCEPT !.attempt = @ + 1])

\* after the backoff: attempt++ and the loop condition
afterBackoff(c) ==
  LET n == [c EXCEPT !.attempt = @ + 1]
  IN IF n.attempt <= cMaxRetries THEN [n EXCEPT !.pc = "attempt"] ELSE exhaust(n)

\* the counters are the closure's: every call adds to the same two
\* i is the call's place in calls, Len(calls) + 1 for a new call
Settle(i, c) ==
  LET was == IF i > Len(calls) THEN NoDeliverCall ELSE calls[i]
  IN /\ calls' = IF i > Len(calls) THEN Append(calls, c) ELSE [calls EXCEPT ![i] = c]
     /\ cDeliveredCount' = cDeliveredCount + (c.delivered - was.delivered)
     /\ cFailedCount' = cFailedCount + (c.failed - was.failed)
     /\ UNCHANGED <<cMaxRetries, cThrows, besidesCalls>>

CreateDelivery ==
  \E k \in CallRetries, th \in SUBSET {"onDelivered", "onExhausted"} :
    /\ \A i \in DOMAIN calls : calls[i].pc = "done"
    /\ cMaxRetries' = k
    /\ cThrows' = th
    /\ cDeliveredCount' = 0
    /\ cFailedCount' = 0
    /\ calls' = <<>>
    /\ UNCHANGED besidesCalls

\* deliver(): runs up to await action()
CallDeliver ==
  /\ Len(calls) < MaxCalls
  /\ Settle(Len(calls) + 1, [NoDeliverCall EXCEPT !.pc = "attempt"])

CallAttempt ==
  \E i \in DOMAIN calls, o \in CallOutcomes :
    /\ calls[i].pc = "attempt"
    /\ Settle(i, afterAction(calls[i], o))

CallBackoff ==
  \E i \in DOMAIN calls :
    /\ calls[i].pc = "waiting"
    /\ Settle(i, afterBackoff(calls[i]))

NextCalls ==
  \/ CreateDelivery
  \/ CallDeliver
  \/ CallAttempt
  \/ CallBackoff

SpecCalls == Init /\ [][NextCalls]_callVars

\* ==================================================== GET /api/team/logs
besidesLogs == <<vars, boardVars, storeVars, markerVars, govVars, deliveryVars, watcherVars, callVars, epochVars, flightVars, teamVars>>

\* the values of ?lines= that are tried: the parameter absent or empty, a
\* word, and numbers around 0, the default and the cap
LinesQueries ==
  {"(absent)", "", "abc", "-1", "0", "1", "2", "200", "2000", "2001", "3000"}
LogSizes == (0..MaxLogOver) \cup ((LogTailCap - 1)..(LogTailCap + MaxLogOver))

\* parseInt(s, 10) of the strings above
parseInt(s) ==
  CASE s = "-1" -> Num(-1)
    [] s = "0" -> Num(0)
    [] s = "1" -> Num(1)
    [] s = "2" -> Num(2)
    [] s = "200" -> Num(200)
    [] s = "2000" -> Num(2000)
    [] s = "2001" -> Num(2001)
    [] s = "3000" -> Num(3000)
    [] OTHER -> NaN
\* Math.min(x, c): NaN when x is NaN
mathMin(x, c) == IF x.nan THEN NaN ELSE Num(IF x.n < c THEN x.n ELSE c)
\* Array.prototype.slice(start) on an array of len elements, as the number
\* of elements returned: NaN counts as 0, a negative start counts from the end
sliceFrom(start, len) ==
  LET rel == IF start.nan THEN 0 ELSE start.n
      k == IF rel < 0 THEN (IF len + rel > 0 THEN len + rel ELSE 0)
           ELSE (IF rel < len THEN rel ELSE len)
  IN len - k
\* allLines.slice(-lines)
tailCount(lines, len) == sliceFrom(IF lines.nan THEN NaN ELSE Num(-lines.n), len)

\* readLogTail(teamName, lines): "" without a log file; else the file split
\* at "\n", which ends with an empty element after the last line
readLogTail(lines) ==
  LET allLines == logLines + 1
      returned == IF logExists THEN tailCount(lines, allLines) ELSE 0
  IN [lines |-> lines, returned |-> returned,
      text |-> IF returned > 0 THEN returned - 1 ELSE 0]

\* GET /api/team/logs?lines=...
GetLogs ==
  \E q \in LinesQueries :
    LET raw == IF q \in {"(absent)", ""} THEN "200" ELSE q
        lines == parseInt(raw)
        out == readLogTail(mathMin(lines, LogTailCap))
    IN /\ lresp' = IF activeTeamName = Null
                     THEN [query |-> q, lines |-> NaN, returned |-> 0, text |-> 0]
                     ELSE [query |-> q, lines |-> out.lines, returned |-> out.returned,
                           text |-> out.text]
       /\ UNCHANGED <<logExists, logLines, besidesLogs>>

\* startTeam empties the log; the cycles append lines to it
LogWritten ==
  \E n \in LogSizes :
    /\ activeTeamName # Null
    /\ ~logExists \/ n > logLines
    /\ logExists' = TRUE
    /\ logLines' = n
    /\ UNCHANGED <<lresp, besidesLogs>>

NextLogs ==
  \/ GetLogs
  \/ LogWritten
  \/ TeamConnect

SpecLogs == Init /\ [][NextLogs]_<<logVars, boardVars, markerVars>>

\* --------------------------------------------------------------------- C31
\* the refs of task a that point to task b
RefsTo(ts, a, b) ==
  IF HasTask(ts, a)
    THEN {i \in 1..Len(TaskOf(ts, a).refs) : TaskOf(ts, a).refs[i].taskId = b}
    ELSE {}
\* C31: after DELETE /api/tasks/A/refs/B answered 200, task A holds no ref
\* to B and task B holds no ref to A, whatever refs linked them before.
C31_DeleteRefUnlinksBoth ==
  [][ \A a \in TaskIds, b \in TaskIds :
        (DeleteRefOf(a, b) /\ resp'.status = 200)
          => (RefsTo(tasks', a, b) = {} /\ RefsTo(tasks', b, a) = {}) ]_boardVars

\* --------------------------------------------------------------------- C32
\* the number N of a query, where it is one; a negative N asks for no lines
QueryNumber(q) ==
  LET x == parseInt(q) IN IF ~x.nan /\ x.n < 0 THEN Num(0) ELSE x
\* C32: for every value N of ?lines=, GET /api/team/logs returns the last
\* min(N, 2000) lines of the log: never more than 2000 lines and never more
\* than N lines.
C32_LogTailCapped ==
  lresp.query # "init" =>
    /\ lresp.text <= LogTailCap
    /\ ~QueryNumber(lresp.query).nan => lresp.text <= QueryNumber(lresp.query).n

\* --------------------------------------------------------------------- C33
\* C33: within one start() epoch the turn limit given to each spawned cycle
\* is allocateCycleBudget(50) of a governor created with the configured
\* maxTurns at start() and fed recordTurns(num_turns) per result event, and
\* spawnCycle refuses to spawn exactly when that allocation is 0.
C33_SupervisorRefinesGovernor ==
  last.spawnCall =>
    /\ (last.spawned = 0) <=> (allocateCycleBudget(PerCycleCap) = 0)
    /\ last.spawned > 0 => last.cycleTurns = allocateCycleBudget(PerCycleCap)
    /\ totalTurnsUsed = turnsUsed
\* a respawn with less than the per-cycle cap left, after turns were reported
C33_Witness ==
  /\ last.op = "timer" /\ last.spawned = 1 /\ turnsUsed = 25
  /\ govMaxTurns = 60 /\ last.cycleTurns = 35

\* --------------------------------------------------------------------- C34
DoneCalls == {i \in DOMAIN calls : calls[i].pc = "done"}
\* C34: every completed deliver() call has incremented exactly one of
\* deliveredCount / failedCount, by 1, and called exactly one of onDelivered
\* / onExhausted, once - deliveredCount iff it returned true - and the sum
\* of the counters is the number of completed calls; also with calls that
\* overlap and with callbacks that throw.
C34_OneCountPerDelivery ==
  /\ \A i \in DoneCalls :
       /\ calls[i].delivered + calls[i].failed = 1
       /\ calls[i].onDelivered + calls[i].onExhausted = 1
       /\ (calls[i].delivered = 1) <=> (calls[i].ret = "true")
  /\ (\A i \in DOMAIN calls : calls[i].pc = "done")
       => cDeliveredCount + cFailedCount = Cardinality(DoneCalls)

\* --------------------------------------------------------------------- C35
\* C35: at any moment at most one lead child started by the supervisor is
\* alive, and the in-memory child handle and the persisted lead PID refer to
\* that child.
C35_OneLeadChild ==
  /\ Cardinality(procs) <= 1
  /\ \A c \in procs : leadProcess = c.pid /\ persistedPid = c.pid

\* --------------------------------------------------------------------- C36
\* C36: the 5 s escalation timer of a stop() signals no child but the one
\* that stop() was terminating; a child of a later start() is never sent a
\* kill signal by it.
C36_EscalationKeepsToItsChild ==
  [][ (last'.op = "timer" /\ last'.fired.kind = "kill")
        => \A sg \in last'.sigs : sg[2] = last'.fired.pid ]_vars

\* --------------------------------------------------------------------- C37
\* C37: with cycles that report in total at most the turn limit they were
\* given, the turns used within one start() epoch never exceed maxTurns.
C37_UsedWithinMaxTurns ==
  currentConfig # NoConfig => totalTurnsUsed <= EffMaxTurns(currentConfig)

\* --------------------------------------------------------------------- C38
\* C38: with cycles that each report at least 1 turn, at most maxTurns
\* cycles are spawned within one start() epoch, so that the supervisor
\* stops spawning, however many board changes arrive.
C38_AtMostMaxTurnsCycles ==
  currentConfig # NoConfig => cyclesSpawned <= EffMaxTurns(currentConfig)

\* ============================================ handlers of requests in flight
\* handleRoute is async: a handler of a request with a body stops at
\* `await parseBody(req)` and other handlers run meanwhile; what follows the
\* await, from readBoard() to json(res, ...), has no await in it and runs
\* as one stretch of the event loop.  DELETE has no body and never stops.
\* seen is the board on file when the request arrived.
besidesFlight == <<vars, storeVars, markerVars, govVars, deliveryVars, watcherVars, logVars, callVars, epochVars, teamVars>>

\* board.tasks.push(task)
postTask(board, id, col) == board \cup {Task(id, IF col = Absent THEN "backlog" ELSE col)}
\* task[key] = body[key]; board.tasks[idx] = task, for a body { column }
patchTask(board, id, col) == Replace(board, [TaskOf(board, id) EXCEPT !.column = col])
\* board.tasks.splice(idx, 1)
deleteTask(board, id) == {t \in board : t.id # id}

\* const board = readBoard(), the statement after the await
boardReadBeforeBody(r) == requests[r].seen
boardRead(r) == tasks

\* r is the request's place in requests, Len(requests) + 1 for one that
\* is answered as it arrives
Answer(r, q, status) ==
  LET a == [q EXCEPT !.pc = "done", !.status = status]
  IN /\ requests' = IF r > Len(requests) THEN Append(requests, a)
                    ELSE [requests EXCEPT ![r] = a]
     /\ answered' = IF status \in {200, 201} THEN Append(answered, a) ELSE answered

\* a POST /api/tasks or a PATCH /api/tasks/:id arrives: await parseBody(req)
Arrive ==
  \E kind \in {"POST", "PATCH"}, id \in TaskIds, col \in ColumnInputs \cup {Absent} :
    /\ Len(requests) < MaxRequests
    /\ kind = "POST" => id = 1
    /\ kind = "PATCH" => col # Absent
    /\ requests' = Append(requests,
                      [NoRequest EXCEPT !.pc = "body", !.kind = kind, !.col = col,
                                        !.id = IF kind = "POST" THEN 0 ELSE id,
                                        !.seen = tasks])
    /\ UNCHANGED <<answered, boardVars, besidesFlight>>

\* POST /api/tasks after the body has been parsed (lines 219-249)
ResumePost ==
  \E r \in DOMAIN requests :
    LET q == requests[r]
        board == boardRead(r)
    IN /\ q.pc = "body" /\ q.kind = "POST"
       /\ nextId <= MaxTasks
       /\ tasks' = postTask(board, nextId, q.col)
       /\ nextId' = nextId + 1
       /\ resp' = Resp("POST task", nextId, 201, TRUE)
       /\ Answer(r, [q EXCEPT !.id = nextId], 201)
       /\ readBoard
       /\ UNCHANGED <<team, besidesFlight>>

\* PATCH /api/tasks/:id after the body has been parsed (lines 257-286)
ResumePatch ==
  \E r \in DOMAIN requests :
    LET q == requests[r]
        board == boardRead(r)
    IN /\ q.pc = "body" /\ q.kind = "PATCH"
       /\ IF ~HasTask(board, q.id)
            THEN Reply("PATCH task", q.id, 404) /\ Answer(r, q, 404)
            ELSE /\ tasks' = patchTask(board, q.id, q.col)
                 /\ resp' = Resp("PATCH task", q.id, 200, TRUE)
                 /\ Answer(r, q, 200)
                 /\ UNCHANGED <<nextId, team>>
       /\ readBoard
       /\ UNCHANGED besidesFlight

\* DELETE /api/tasks/:id, from its arrival to its answer (lines 290-303)
DeleteNow ==
  \E id \in TaskIds :
    LET q == [NoRequest EXCEPT !.kind = "DELETE", !.id = id, !.seen = tasks]
        board == tasks
        r == Len(requests) + 1
    IN /\ Len(requests) < MaxRequests
       /\ IF ~HasTask(board, id)
            THEN Reply("DELETE task", id, 404) /\ Answer(r, q, 404)
            ELSE /\ tasks' = deleteTask(board, id)
                 /\ resp' = Resp("DELETE task", id, 200, TRUE)
                 /\ Answer(r, q, 200)
                 /\ UNCHANGED <<nextId, team>>
       /\ readBoard
       /\ UNCHANGED besidesFlight

NextFlight ==
  \/ Arrive
  \/ ResumePost
  \/ ResumePatch
  \/ DeleteNow

SpecFlight == Init /\ [][NextFlight]_<<flightVars, boardVars>>

\* --------------------------------------------------------------------- C39
\* what the answered requests make of an empty board, one after the other
RECURSIVE Replay(_, _)
Replay(board, as) ==
  IF as = <<>> THEN board
  ELSE LET a == Head(as)
       IN Replay(CASE a.kind = "POST" -> postTask(board, a.id, a.col)
                   [] a.kind = "PATCH" -> patchTask(board, a.id, a.col)
                   [] OTHER -> deleteTask(board, a.id),
                 Tail(as))

\* C39: under every interleaving of POST, PATCH and DELETE requests whose
\* handlers overlap, the board on file is what the requests answered with
\* success make of the board when they are applied one after the other in
\* the order of their answers: no answered update is lost.
C39_NoLostUpdate == tasks = Replay({}, answered)

\* two POSTs that were both waiting for their body on the empty board, and a
\* PATCH that arrived before the task it changes was on file, all answered
C39_Witness ==
  /\ \E r1 \in DOMAIN requests, r2 \in DOMAIN requests :
       /\ r1 # r2
       /\ requests[r1].kind = "POST" /\ requests[r1].status = 201 /\ requests[r1].seen = {}
       /\ requests[r2].kind = "POST" /\ requests[r2].status = 201 /\ requests[r2].seen = {}
  /\ \E r3 \in DOMAIN requests :
       /\ requests[r3].kind = "PATCH" /\ requests[r3].status = 200
       /\ ~HasTask(requests[r3].seen, requests[r3].id)
  /\ Cardinality(tasks) = 2

\* ==================================== the team routes and the supervisor
\* The routes find the team in meta.team of the board the store addresses
\* and hand its name to the supervisor, whose state (teamActive,
\* leadProcess, currentConfig) is one per server.  Only the team RunTeam is
\* ever started here, so the one state file the supervisor model keeps
\* (persistedPid) is that team's; the state file of any other team holds no
\* pid.
besidesTeams == <<boardVars, storeVars, govVars, deliveryVars, watcherVars, logVars, callVars, epochVars, flightVars>>

RunTeam == "a"
TeamCfg(name) == [teamName |-> name, maxTurns |-> 2]

\* the supervisor's state as a call with this team name reads it:
\* getPersistedPid(teamName) reads the state file of that team
SeenBy(s, name) == [s EXCEPT !.persistedPid = IF name = RunTeam THEN @ ELSE NoPid]
\* and as the call leaves it: persistState(teamName, ...) writes that file
LeftBy(s, name, r) == [r EXCEPT !.persistedPid = IF name = RunTeam THEN @ ELSE s.persistedPid]

\* board.meta.team?.teamName of the board the store addresses; a board that
\* no team route has written has no meta.team
BoardTeam == IF activeTeamName \in DOMAIN metaTeam THEN metaTeam[activeTeamName] ELSE Null
\* writeBoardSync(board) with this meta.team
WriteTeam(b, name) == [x \in DOMAIN metaTeam \cup {b} |-> IF x = b THEN name ELSE metaTeam[x]]

\* POST /api/team/connect with a teamName and a projectDir
ConnectTeam ==
  \E name \in TeamNames :
    /\ spc = "idle"
    /\ activeTeamName' = name
    /\ markerFile' = Marker(name)
    /\ metaTeam' = WriteTeam(name, name)
    /\ UNCHANGED <<vars, spc, sname, sprev, sdone, besidesTeams>>

\* POST /api/team/disconnect
DisconnectTeam ==
  LET name == BoardTeam
      s0 == Cur("stop")
  IN /\ spc = "idle"
     /\ IF name # Null /\ checkRunning(SeenBy(s0, name))
          THEN LET r == LeftBy(s0, name, stopTeam(SeenBy(s0, name)))
               IN Len(r.strayTimers) <= MaxStray /\ BecomesSupervisor(r)
          ELSE UNCHANGED vars
     /\ metaTeam' = WriteTeam(activeTeamName, Null)
     /\ activeTeamName' = Null
     /\ markerFile' = Marker(Null)
     /\ UNCHANGED <<spc, sname, sprev, sdone, besidesTeams>>

\* POST /api/team/start
StartConnected ==
  LET name == BoardTeam
      s0 == Cur("start")
      pre == [s0 EXCEPT !.currentConfig = TeamCfg(name), !.totalTurnsUsed = 0]
  IN /\ name # Null
     /\ name = RunTeam \/ checkRunning(SeenBy(s0, name))
     /\ ~checkRunning(SeenBy(s0, name)) => PidAvailable(pre)
     /\ BecomesSupervisor(LeftBy(s0, name, startTeam(SeenBy(s0, name), TeamCfg(name))))
     /\ UNCHANGED otherVars

\* POST /api/team/stop
StopConnected ==
  LET name == BoardTeam
      s0 == Cur("stop")
      r == LeftBy(s0, name, stopTeam(SeenBy(s0, name)))
  IN /\ name # Null
     /\ Len(r.strayTimers) <= MaxStray
     /\ BecomesSupervisor(r)
     /\ UNCHANGED otherVars

NextTeams ==
  \/ ConnectTeam
  \/ DisconnectTeam
  \/ StartConnected
  \/ StopConnected
  \/ ChildExit
  \/ StrayFires
  \/ Tick

SpecTeams == Init /\ [][NextTeams]_<<vars, teamVars, markerVars>>

\* --------------------------------------------------------------------- C40
\* C40: whenever the supervisor is active, the board the store addresses is
\* bound (meta.team) to the team the supervisor was started for.
C40_ActiveTeamIsBoardTeam ==
  teamActive => BoardTeam = currentConfig.teamName

TypeOK ==
  /\ leadProcess \in {NoPid} \cup Pids
  /\ teamActive \in BOOLEAN
  /\ pendingBoardChange \in BOOLEAN
  /\ sinceSpawn \in 0..CrashGuardS
  /\ totalTurnsUsed \in 0..MaxUsed
  /\ Len(strayTimers) <= MaxStray
  /\ Cardinality(procs) <= MaxProcs
====
